---------------------------- MODULE Spec2Model ----------------------------
(***************************************************************************)
(* Schedule reconciliation (importExcel), the manual CRUD handlers and the  *)
(* derived views (port and sailing ordering, route durations) of           *)
(* src/src/app/page.tsx, as a state machine over the remote store.         *)
(*                                                                         *)
(* A string is a tuple of one-character strings, so that trimming and      *)
(* upper-casing are computed and not assumed.  A spreadsheet cell is a     *)
(* tagged value: [str |-> s] for a text cell, [num |-> n] for a numeric    *)
(* cell (sheet_to_json with defval "" gives "" for an empty cell).         *)
(***************************************************************************)
EXTENDS Integers, Sequences, FiniteSets, TLC

\* ------------------------------------------------------------------ strings

LowerAlpha == <<"a","b","c","d","e","f","g","h","i","j","k","l","m",
                "n","o","p","q","r","s","t","u","v","w","x","y","z">>
UpperAlpha == <<"A","B","C","D","E","F","G","H","I","J","K","L","M",
                "N","O","P","Q","R","S","T","U","V","W","X","Y","Z">>
Digits == <<"0","1","2","3","4","5","6","7","8","9">>

\* String.prototype.toUpperCase, character by character.
UpperChar(c) ==
  IF \E k \in 1..26 : LowerAlpha[k] = c
  THEN UpperAlpha[CHOOSE k \in 1..26 : LowerAlpha[k] = c]
  ELSE c

toUpperCase(s) == [k \in 1..Len(s) |-> UpperChar(s[k])]

\* String.prototype.trim: drops leading and trailing white space.
RECURSIVE TrimLeft(_)
TrimLeft(s) == IF s # <<>> /\ Head(s) = " " THEN TrimLeft(Tail(s)) ELSE s

RECURSIVE TrimRight(_)
TrimRight(s) ==
  IF s # <<>> /\ s[Len(s)] = " " THEN TrimRight(SubSeq(s, 1, Len(s) - 1)) ELSE s

trim(s) == TrimRight(TrimLeft(s))

IsDigit(c) == \E k \in 1..10 : Digits[k] = c
DigitVal(c) == (CHOOSE k \in 1..10 : Digits[k] = c) - 1

\* Number.prototype.toString for a non-negative integer.
RECURSIVE NatToStr(_)
NatToStr(n) == IF n < 10 THEN <<Digits[n + 1]>>
               ELSE NatToStr(n \div 10) \o <<Digits[(n % 10) + 1]>>

\* String.prototype.padStart(w, "0").
RECURSIVE padStart(_, _)
padStart(s, w) == IF Len(s) >= w THEN s ELSE padStart(<<"0">> \o s, w)

\* NaN, the result of Number() on text that is no numeral.
NaN == -1

\* Number(s) for a trimmed string: the numeral's value when s is all digits,
\* 0 for the empty string, NaN otherwise (signs, fractions and exponents are
\* outside the modelled alphabet).
RECURSIVE DigitsValue(_)
DigitsValue(s) == IF s = <<>> THEN 0
                  ELSE 10 * DigitsValue(SubSeq(s, 1, Len(s) - 1)) + DigitVal(s[Len(s)])

StrToNumber(s) ==
  IF \A k \in 1..Len(s) : IsDigit(s[k]) THEN DigitsValue(s) ELSE NaN

\* ------------------------------------------------------------------ cells

Str(s) == [str |-> s]
Num(n) == [num |-> n]
IsNum(c) == "num" \in DOMAIN c
EmptyCell == Str(<<>>)

\* JavaScript truthiness of a cell: "" and 0 are falsy.
Falsy(c) == IF IsNum(c) THEN c.num = 0 ELSE c.str = <<>>

\* Number(cell).
ToNumber(c) == IF IsNum(c) THEN c.num ELSE StrToNumber(trim(c.str))

\* excelValueToString without the trim of a text cell
excelValueToStringNoTrim(c) == IF IsNum(c) THEN NatToStr(c.num) ELSE c.str

excelValueToString(c) == IF IsNum(c) THEN NatToStr(c.num) ELSE trim(c.str)

\* the database null
Null == <<"NULL">>

\* `x || null` on a string
OrNull(s) == IF s = <<>> THEN Null ELSE s

\* ------------------------------------------------------------------ dates

\* XLSX.SSF.parse_date_code for a whole serial number in the 1900 date system:
\* serials above 60 count days from 1899-12-30 (the phantom 1900-02-29 is
\* skipped); a serial above 2958465 (9999-12-31) has no date.
MaxSerial == 2958465

CivilFromDays(z) ==
  LET era == z \div 146097
      doe == z - era * 146097
      yoe == (doe - doe \div 1460 + doe \div 36524 - doe \div 146096) \div 365
      doy == doe - (365 * yoe + yoe \div 4 - yoe \div 100)
      mp  == (5 * doy + 2) \div 153
      d   == doy - (153 * mp + 2) \div 5 + 1
      m   == IF mp < 10 THEN mp + 3 ELSE mp - 9
      y   == yoe + era * 400 + (IF m <= 2 THEN 1 ELSE 0)
  IN  [y |-> y, m |-> m, d |-> d]

\* serial 25569 is 1970-01-01, which is day 719468 of the civil calendar
parse_date_code(n) ==
  IF n > MaxSerial THEN [ok |-> FALSE, y |-> 0, m |-> 0, d |-> 0]
  ELSE [ok |-> TRUE] @@ CivilFromDays(n - 25569 + 719468)

\* /^\d{4}-\d{2}-\d{2}$/
MatchesISO(s) ==
  /\ Len(s) = 10
  /\ \A k \in {1, 2, 3, 4, 6, 7, 9, 10} : IsDigit(s[k])
  /\ s[5] = "-" /\ s[8] = "-"

IsSep(c) == c = "/" \/ c = "-"

\* /^(\d{1,2})[\/\-](\d{1,2})[\/\-](\d{4})$/ with a digits for the day and b
\* for the month
MatchesDMY(s, a, b) ==
  /\ Len(s) = a + b + 6
  /\ \A k \in 1..a : IsDigit(s[k])
  /\ IsSep(s[a + 1])
  /\ \A k \in (a + 2)..(a + b + 1) : IsDigit(s[k])
  /\ IsSep(s[a + b + 2])
  /\ \A k \in (a + b + 3)..(a + b + 6) : IsDigit(s[k])

DMYSplits(s) == {ab \in {1, 2} \X {1, 2} : MatchesDMY(s, ab[1], ab[2])}

\* excelDateToISO reading a slashed date as MM/DD/YYYY
excelDateToISOMonthFirst(c) ==
  IF ~IsNum(c) /\ c.str = <<>> THEN <<>>
  ELSE
    LET strValue == excelValueToString(c) IN
    IF MatchesISO(strValue) THEN strValue
    ELSE IF DMYSplits(strValue) # {} THEN
      LET ab == CHOOSE x \in DMYSplits(strValue) : TRUE
          a  == ab[1]
          b  == ab[2]
          mm   == padStart(SubSeq(strValue, 1, a), 2)
          dd   == padStart(SubSeq(strValue, a + 2, a + b + 1), 2)
          yyyy == padStart(SubSeq(strValue, a + b + 3, a + b + 6), 4)
      IN  yyyy \o <<"-">> \o mm \o <<"-">> \o dd
    ELSE
      LET asNum == StrToNumber(strValue) IN
      IF asNum # NaN /\ asNum > 20000 THEN
        LET d == parse_date_code(asNum) IN
        IF ~d.ok THEN <<>>
        ELSE padStart(NatToStr(d.y), 4) \o <<"-">> \o padStart(NatToStr(d.m), 2)
               \o <<"-">> \o padStart(NatToStr(d.d), 2)
      ELSE <<>>

\* The normalised date of a cell: "" stands for an absent date.
excelDateToISO(c) ==
  IF ~IsNum(c) /\ c.str = <<>> THEN <<>>
  ELSE
    LET strValue == excelValueToString(c) IN
    IF MatchesISO(strValue) THEN strValue
    ELSE IF DMYSplits(strValue) # {} THEN
      LET ab == CHOOSE x \in DMYSplits(strValue) : TRUE
          a  == ab[1]
          b  == ab[2]
          dd   == padStart(SubSeq(strValue, 1, a), 2)
          mm   == padStart(SubSeq(strValue, a + 2, a + b + 1), 2)
          yyyy == padStart(SubSeq(strValue, a + b + 3, a + b + 6), 4)
      IN  yyyy \o <<"-">> \o mm \o <<"-">> \o dd
    ELSE
      LET asNum == StrToNumber(strValue) IN
      IF asNum # NaN /\ asNum > 20000 THEN
        LET d == parse_date_code(asNum) IN
        IF ~d.ok THEN <<>>
        ELSE padStart(NatToStr(d.y), 4) \o <<"-">> \o padStart(NatToStr(d.m), 2)
               \o <<"-">> \o padStart(NatToStr(d.d), 2)
      ELSE <<>>

\* ------------------------------------------------------------------ inputs

\* Most persistence operations plus manual actions in one behaviour.
MaxOps == 3

DefaultYear == 2026
DefaultWeek == 3

CN     == <<"C","N">>
cnPad  == <<" ","c","n">>
VN     == <<"V","N">>
S1     == <<"S","1">>
s1     == <<"s","1">>
S2     == <<"S","2">>
BATAM  == <<"B","A","T","A","M">>
batam  == <<"b","a","t","a","m">>
SIN    == <<"S","I","N">>
ETD    == <<"E","T","D">>
ETA    == <<"E","T","A">>
etdPad == <<"e","t","d"," ">>
VA     == <<"V","A">>
va     == <<"v","a">>
VB     == <<"V","B">>
W1     == <<"1","W">>
w1Pad  == <<"1","w"," ">>
D18iso == <<"2","0","2","6","-","0","1","-","1","8">>
D22iso == <<"2","0","2","6","-","0","1","-","2","2">>
D22dmy == <<"2","2","/","0","1","/","2","0","2","6">>
TBA    == <<"T","B","A">>
\* matches the ISO pattern and names no day
BadDate == <<"2","0","2","6","-","1","3","-","4","5">>

\* One row of the sheet, as sheet_to_json(ws, {defval: ""}) returns it.
TemplateRow ==
  [group_code |-> Str(CN), service_code |-> Str(S1),
   year |-> Num(DefaultYear), week |-> Num(DefaultWeek),
   vessel |-> Str(VA), voyage |-> Str(W1),
   connecting_vessel |-> EmptyCell, connecting_voyage |-> EmptyCell,
   port_name |-> Str(BATAM), event_type |-> Str(ETD),
   date_value |-> Str(D18iso)]

\* The rows a file may hold: the template row and variations of it.
RowSet ==
  { TemplateRow,
    \* another port of the same sailing, date as DD/MM/YYYY
    [TemplateRow EXCEPT !.port_name = Str(SIN), !.event_type = Str(ETA),
                        !.date_value = Str(D22dmy)],
    \* the template's keys in another case and padding, other connecting
    \* vessel, date as a serial number
    [TemplateRow EXCEPT !.group_code = Str(cnPad), !.service_code = Str(s1),
                        !.vessel = Str(va), !.voyage = Str(w1Pad),
                        !.port_name = Str(batam),
                        !.event_type = Str(etdPad),
                        !.connecting_vessel = Str(VB),
                        !.connecting_voyage = Str(W1),
                        !.date_value = Num(46044)],
    \* a second service of the same group, its date naming no day
    [TemplateRow EXCEPT !.service_code = Str(S2), !.date_value = Str(BadDate)],
    \* the same service code under another group
    [TemplateRow EXCEPT !.group_code = Str(VN), !.port_name = Str(SIN)],
    \* no year cell, no date
    [TemplateRow EXCEPT !.year = EmptyCell, !.vessel = Str(VB),
                        !.date_value = Str(TBA)],
    \* invalid rows
    [TemplateRow EXCEPT !.vessel = Str(<<" ">>)],
    [TemplateRow EXCEPT !.event_type = Str(<<"E","T">>), !.service_code = Str(S2)] }

\* ------------------------------------------------------------------ store

NoRow == [id |-> 0]

\* select("*") of a table: its rows in insertion order.
EmptyDb ==
  [groups |-> <<>>, services |-> <<>>, ports |-> <<>>, sailings |-> <<>>,
   dates |-> <<>>, nextId |-> 1]

\* Stable ascending order of seq by the integers key[k], key[k] being the
\* ordering column of seq[k], as .order(column).
OrderBy(seq, key) ==
  LET RECURSIVE Ins(_, _)
      Ins(sorted, k) ==
        IF sorted = <<>> THEN <<k>>
        ELSE IF key[sorted[Len(sorted)]] <= key[k] THEN Append(sorted, k)
        ELSE Append(Ins(SubSeq(sorted, 1, Len(sorted) - 1), k), sorted[Len(sorted)])
      RECURSIVE F(_, _)
      F(k, acc) == IF k > Len(seq) THEN acc ELSE F(k + 1, Ins(acc, k))
      order == F(1, <<>>)
  IN  [k \in DOMAIN order |-> seq[order[k]]]

\* new Map() filled by `for (const x of seq) map.set(key, x)`, key[j] being the
\* key of seq[j]: the last row with a key wins.
BuildMap(seq, key) ==
  [k \in {key[j] : j \in DOMAIN seq} |->
     seq[CHOOSE j \in DOMAIN seq :
           /\ key[j] = k
           /\ \A j2 \in DOMAIN seq : key[j2] = k => j2 <= j]]

\* Map.get / Map.set
MapGet(m, k) == IF k \in DOMAIN m THEN m[k] ELSE NoRow
MapSet(m, k, v) == (k :> v) @@ m

\* ------------------------------------------------------------------ state

VARIABLES
  db,        \* the remote store (supabase tables)
  year,      \* selected year (React state)
  week,      \* selected week (React state)
  isAdmin,   \* an admin session is present
  busy,      \* the busy flag
  ui,        \* the snapshot refreshAll loaded into React state
  alert,     \* the last message given to showAlert
  imp,       \* the importExcel call in flight: its maps, counters, position
  imp2,      \* a second importExcel call in flight beside the first
  issued,    \* persistence operations issued by the current or last batch
  ops,       \* rows processed and manual actions taken so far
  mode,      \* "free", or the stage of an import that is run twice
  file,      \* rows of the file that is run twice
  saved,     \* the store as the first of the two runs left it
  editMode,  \* the "Editing ON" toggle (React state)
  out,       \* the value last returned by a derived view or a pure function
  fileInput, \* fileInputRef.current.value: the file chosen in the input
  pending,   \* the (year, week) of each refreshAll call that has not returned
  selectedGroup,    \* id of the group last selected, NoSelection for null
  selectedService,  \* id of the service last selected
  selectedPort,     \* id of the port last selected
  selectedSailing,  \* id of the sailing last selected
  showDeleteModal,  \* the delete confirmation modal is open
  clicked,   \* the item whose delete button opened the modal: <<type, id>>
  session,   \* the auth client holds a session
  sessionCheck,     \* the getSession() call of the mount effect
  storage,   \* the object paths held by the bucket "port-files"
  port_files,       \* the table port_files
  portFiles, \* the records loadPortFiles put into React state
  now        \* Date.now(), counted in uploads

\* the selection state of the modals and the button that opened the delete modal
selectedVars == <<selectedGroup, selectedService, selectedPort, selectedSailing, clicked>>
\* the session and its check
authVars == <<session, sessionCheck>>
\* the PDF library page and its store
libraryVars == <<storage, port_files, portFiles, now>>

vars == <<db, year, week, isAdmin, busy, ui, alert, imp, imp2, issued, ops, mode,
          file, saved, editMode, out, fileInput, pending, showDeleteModal,
          selectedVars, authVars, libraryVars>>

NoSelection == 0
NoFile == <<>>
ChosenFile == <<"schedule.xlsx">>
SessionChecked == [state |-> "resolved"]

\* the state outside the schedule as the page has it after mounting
Untouched ==
  /\ fileInput = NoFile
  /\ pending = <<>>
  /\ selectedGroup = NoSelection /\ selectedService = NoSelection
  /\ selectedPort = NoSelection /\ selectedSailing = NoSelection
  /\ showDeleteModal = FALSE
  /\ clicked = <<>>
  /\ session = isAdmin /\ sessionCheck = SessionChecked
  /\ storage = {} /\ port_files = <<>> /\ portFiles = <<>> /\ now = 0

NoErr == [row |-> 0, step |-> "none"]
NoCur == [group |-> NoRow, service |-> NoRow, port |-> NoRow, sailing |-> NoRow]

IdleImp ==
  [pc |-> "idle", i |-> 0, groups |-> <<>>, ports |-> <<>>,
   groupByCode |-> <<>>, serviceByCode |-> <<>>, portByKey |-> <<>>,
   sailingByKey |-> <<>>, dateByKey |-> <<>>,
   createdGroups |-> 0, createdServices |-> 0, createdPorts |-> 0,
   createdSailings |-> 0, upsertDates |-> 0, skipped |-> 0]

NoAlert == [kind |-> "none"]
NoOut == [fn |-> "none"]

\* ------------------------------------------------------------------ refreshAll

\* .order("vessel") is left as insertion order: no property stated here reads
\* the order of ui.sailings.
refreshAll(d, y, w) ==
  [serviceGroups |-> OrderBy(d.groups, [k \in DOMAIN d.groups |-> d.groups[k].sort_order]),
   services      |-> OrderBy(d.services, [k \in DOMAIN d.services |-> d.services[k].sort_order]),
   ports         |-> OrderBy(d.ports, [k \in DOMAIN d.ports |-> d.ports[k].sequence]),
   sailings      |-> SelectSeq(d.sailings, LAMBDA s : s.year = y /\ s.week = w),
   sailingDates  |-> d.dates]

\* ------------------------------------------------------------------ importExcel

\* A map key `${a}__${b}__...`: its ids and numbers, then its texts.
MapKey(ids, text) == [ids |-> ids, text |-> text]

GroupKey(g) == MapKey(<<>>, <<toUpperCase(g.code)>>)
ServiceKey(s) == MapKey(<<>>, <<toUpperCase(s.code)>>)
PortKey(p) ==
  MapKey(<<p.service_id>>, <<toUpperCase(p.port_name), toUpperCase(p.event_type)>>)
\* SailingKey without the upper-casing of the stored vessel and voyage
SailingKeyAsStored(s) ==
  MapKey(<<s.service_id, s.year, s.week>>, <<s.vessel, s.voyage>>)

SailingKey(s) ==
  MapKey(<<s.service_id, s.year, s.week>>,
         <<toUpperCase(s.vessel), toUpperCase(s.voyage)>>)
DateKey(d) == MapKey(<<d.sailing_id, d.service_port_id>>, <<>>)

\* The five selects and the lookup maps built from them.
LoadImport(d) ==
  [IdleImp EXCEPT
     !.pc = "rows",
     !.groups = d.groups, !.ports = d.ports,
     !.groupByCode = BuildMap(d.groups, [j \in DOMAIN d.groups |-> GroupKey(d.groups[j])]),
     !.serviceByCode = BuildMap(d.services, [j \in DOMAIN d.services |-> ServiceKey(d.services[j])]),
     !.portByKey = BuildMap(d.ports, [j \in DOMAIN d.ports |-> PortKey(d.ports[j])]),
     !.sailingByKey = BuildMap(d.sailings, [j \in DOMAIN d.sailings |-> SailingKey(d.sailings[j])]),
     !.dateByKey = BuildMap(d.dates, [j \in DOMAIN d.dates |-> DateKey(d.dates[j])])]

\* The per-row constants of the loop body that do not read React state.
NormText(r) ==
  [connecting_vessel |-> excelValueToString(r.connecting_vessel),
   connecting_voyage |-> excelValueToString(r.connecting_voyage),
   group_code   |-> toUpperCase(excelValueToString(r.group_code)),
   service_code |-> toUpperCase(excelValueToString(r.service_code)),
   vessel       |-> excelValueToString(r.vessel),
   voyage       |-> excelValueToString(r.voyage),
   port_name    |-> toUpperCase(excelValueToString(r.port_name)),
   event_type   |-> toUpperCase(excelValueToString(r.event_type)),
   date_value   |-> excelDateToISO(r.date_value)]

\* NormText tabulated over the rows a file may hold
NormTable == [r \in RowSet |-> NormText(r)]

\* The per-row constants of the loop body.
NormRow(r, y, w) ==
  [yearValue |-> ToNumber(IF Falsy(r.year) THEN Num(y) ELSE r.year),
   weekValue |-> ToNumber(IF Falsy(r.week) THEN Num(w) ELSE r.week)]
  @@ NormTable[r]

\* "minimal validation": the row is skipped when this holds
RowInvalid(x) ==
  \/ x.group_code = <<>>
  \/ x.service_code = <<>>
  \/ x.yearValue = 0 \/ x.yearValue = NaN
  \/ x.weekValue = 0 \/ x.weekValue = NaN
  \/ x.vessel = <<>>
  \/ x.voyage = <<>>
  \/ x.port_name = <<>>
  \/ (x.event_type # ETA /\ x.event_type # ETD)

Op(st, kind, table, key, ok) ==
  Append(st.issued, [row |-> st.imp.i + 1, op |-> kind, table |-> table,
                     key |-> key, ok |-> ok])

\* Fail reporting the loop index i instead of i + 1
FailZeroBased(st, kind, table, key, step) ==
  [st EXCEPT !.issued = Op(st, kind, table, key, FALSE),
             !.err = [row |-> st.imp.i, step |-> step]]

Fail(st, kind, table, key, step) ==
  [st EXCEPT !.issued = Op(st, kind, table, key, FALSE),
             !.err = [row |-> st.imp.i + 1, step |-> step]]

\* A) ensure group exists
EnsureGroup(st, x, failAt) ==
  IF st.err # NoErr THEN st
  ELSE
    LET groupKey == MapKey(<<>>, <<x.group_code>>) IN
    IF groupKey \in DOMAIN st.imp.groupByCode
    THEN [st EXCEPT !.cur.group = st.imp.groupByCode[groupKey]]
    ELSE IF failAt = "group"
    THEN Fail(st, "insert", "service_groups", groupKey, "create group")
    ELSE
      LET data == [id |-> st.db.nextId, code |-> x.group_code,
                   sort_order |-> Len(st.imp.groups) + st.imp.createdGroups + 1]
      IN  [st EXCEPT
             !.db.groups = Append(@, data), !.db.nextId = @ + 1,
             !.issued = Op(st, "insert", "service_groups", groupKey, TRUE),
             !.cur.group = data,
             !.imp.groupByCode = MapSet(@, groupKey, data),
             !.imp.createdGroups = @ + 1]

ImportedServiceSortOrder == 9999

\* B) ensure service exists
EnsureService(st, x, failAt) ==
  IF st.err # NoErr THEN st
  ELSE
    LET serviceKey == MapKey(<<>>, <<x.service_code>>) IN
    IF serviceKey \in DOMAIN st.imp.serviceByCode
    THEN [st EXCEPT !.cur.service = st.imp.serviceByCode[serviceKey]]
    ELSE IF failAt = "service"
    THEN Fail(st, "insert", "services", serviceKey, "create service")
    ELSE
      LET data == [id |-> st.db.nextId, group_id |-> st.cur.group.id,
                   code |-> x.service_code, sort_order |-> ImportedServiceSortOrder]
      IN  [st EXCEPT
             !.db.services = Append(@, data), !.db.nextId = @ + 1,
             !.issued = Op(st, "insert", "services", serviceKey, TRUE),
             !.cur.service = data,
             !.imp.serviceByCode = MapSet(@, serviceKey, data),
             !.imp.createdServices = @ + 1]

\* EnsurePort without portByKey.set after the insert
EnsurePortNoRegister(st, x, failAt) ==
  IF st.err # NoErr THEN st
  ELSE
    LET portKey == MapKey(<<st.cur.service.id>>, <<x.port_name, x.event_type>>) IN
    IF portKey \in DOMAIN st.imp.portByKey
    THEN [st EXCEPT !.cur.port = st.imp.portByKey[portKey]]
    ELSE IF failAt = "port"
    THEN Fail(st, "insert", "service_ports", portKey, "create port")
    ELSE
      LET servicePorts ==
            SelectSeq(st.imp.ports, LAMBDA p : p.service_id = st.cur.service.id)
          nextSeq == Len(servicePorts) + st.imp.createdPorts + 1
          data == [id |-> st.db.nextId, service_id |-> st.cur.service.id,
                   port_name |-> x.port_name, event_type |-> x.event_type,
                   sequence |-> nextSeq]
      IN  [st EXCEPT
             !.db.ports = Append(@, data), !.db.nextId = @ + 1,
             !.issued = Op(st, "insert", "service_ports", portKey, TRUE),
             !.cur.port = data,
             !.imp.createdPorts = @ + 1]

\* EnsurePort that also renumbers a port it finds in the index
EnsurePortResequence(st, x, failAt) ==
  IF st.err # NoErr THEN st
  ELSE
    LET portKey == MapKey(<<st.cur.service.id>>, <<x.port_name, x.event_type>>)
        servicePorts ==
          SelectSeq(st.imp.ports, LAMBDA p : p.service_id = st.cur.service.id)
        nextSeq == Len(servicePorts) + st.imp.createdPorts + 1
    IN
    IF portKey \in DOMAIN st.imp.portByKey
    THEN [st EXCEPT
            !.cur.port = st.imp.portByKey[portKey],
            !.db.ports = [k \in DOMAIN @ |->
                            IF @[k].id = st.imp.portByKey[portKey].id
                            THEN [@[k] EXCEPT !.sequence = nextSeq] ELSE @[k]]]
    ELSE IF failAt = "port"
    THEN Fail(st, "insert", "service_ports", portKey, "create port")
    ELSE
      LET data == [id |-> st.db.nextId, service_id |-> st.cur.service.id,
                   port_name |-> x.port_name, event_type |-> x.event_type,
                   sequence |-> nextSeq]
      IN  [st EXCEPT
             !.db.ports = Append(@, data), !.db.nextId = @ + 1,
             !.issued = Op(st, "insert", "service_ports", portKey, TRUE),
             !.cur.port = data,
             !.imp.portByKey = MapSet(@, portKey, data),
             !.imp.createdPorts = @ + 1]

\* C) ensure port exists
EnsurePort(st, x, failAt) ==
  IF st.err # NoErr THEN st
  ELSE
    LET portKey == MapKey(<<st.cur.service.id>>, <<x.port_name, x.event_type>>) IN
    IF portKey \in DOMAIN st.imp.portByKey
    THEN [st EXCEPT !.cur.port = st.imp.portByKey[portKey]]
    ELSE IF failAt = "port"
    THEN Fail(st, "insert", "service_ports", portKey, "create port")
    ELSE
      LET servicePorts ==
            SelectSeq(st.imp.ports, LAMBDA p : p.service_id = st.cur.service.id)
          nextSeq == Len(servicePorts) + st.imp.createdPorts + 1
          data == [id |-> st.db.nextId, service_id |-> st.cur.service.id,
                   port_name |-> x.port_name, event_type |-> x.event_type,
                   sequence |-> nextSeq]
      IN  [st EXCEPT
             !.db.ports = Append(@, data), !.db.nextId = @ + 1,
             !.issued = Op(st, "insert", "service_ports", portKey, TRUE),
             !.cur.port = data,
             !.imp.portByKey = MapSet(@, portKey, data),
             !.imp.createdPorts = @ + 1]

\* EnsureSailing without sailingByKey.set after the insert
EnsureSailingNoRegister(st, x, failAt) ==
  IF st.err # NoErr THEN st
  ELSE
    LET sailingKey == MapKey(<<st.cur.service.id, x.yearValue, x.weekValue>>,
                               <<toUpperCase(x.vessel), toUpperCase(x.voyage)>>) IN
    IF sailingKey \in DOMAIN st.imp.sailingByKey
    THEN [st EXCEPT !.cur.sailing = st.imp.sailingByKey[sailingKey]]
    ELSE IF failAt = "sailing"
    THEN Fail(st, "insert", "sailings", sailingKey, "create vessel")
    ELSE
      LET data == [id |-> st.db.nextId, service_id |-> st.cur.service.id,
                   year |-> x.yearValue, week |-> x.weekValue,
                   vessel |-> x.vessel, voyage |-> x.voyage,
                   connecting_vessel |-> OrNull(x.connecting_vessel),
                   connecting_voyage |-> OrNull(x.connecting_voyage),
                   status |-> "SCHEDULED"]
      IN  [st EXCEPT
             !.db.sailings = Append(@, data), !.db.nextId = @ + 1,
             !.issued = Op(st, "insert", "sailings", sailingKey, TRUE),
             !.cur.sailing = data,
             !.imp.createdSailings = @ + 1]

\* D) ensure sailing exists
EnsureSailing(st, x, failAt) ==
  IF st.err # NoErr THEN st
  ELSE
    LET sailingKey == MapKey(<<st.cur.service.id, x.yearValue, x.weekValue>>,
                               <<toUpperCase(x.vessel), toUpperCase(x.voyage)>>) IN
    IF sailingKey \in DOMAIN st.imp.sailingByKey
    THEN [st EXCEPT !.cur.sailing = st.imp.sailingByKey[sailingKey]]
    ELSE IF failAt = "sailing"
    THEN Fail(st, "insert", "sailings", sailingKey, "create vessel")
    ELSE
      LET data == [id |-> st.db.nextId, service_id |-> st.cur.service.id,
                   year |-> x.yearValue, week |-> x.weekValue,
                   vessel |-> x.vessel, voyage |-> x.voyage,
                   connecting_vessel |-> OrNull(x.connecting_vessel),
                   connecting_voyage |-> OrNull(x.connecting_voyage),
                   status |-> "SCHEDULED"]
      IN  [st EXCEPT
             !.db.sailings = Append(@, data), !.db.nextId = @ + 1,
             !.issued = Op(st, "insert", "sailings", sailingKey, TRUE),
             !.cur.sailing = data,
             !.imp.sailingByKey = MapSet(@, sailingKey, data),
             !.imp.createdSailings = @ + 1]

\* update(...).eq("id", id): every row with that id, none if it is gone
UpdateDate(dates, id, value) ==
  [k \in DOMAIN dates |->
     IF dates[k].id = id THEN [dates[k] EXCEPT !.date_value = value] ELSE dates[k]]

\* UpsertDate without dateByKey.set after the insert
UpsertDateNoRegister(st, x, failAt) ==
  IF st.err # NoErr THEN st
  ELSE
    LET dateKey == MapKey(<<st.cur.sailing.id, st.cur.port.id>>, <<>>) IN
    IF dateKey \in DOMAIN st.imp.dateByKey
    THEN
      IF failAt = "date"
      THEN Fail(st, "update", "sailing_dates", dateKey, "update date")
      ELSE [st EXCEPT
              !.db.dates = UpdateDate(@, st.imp.dateByKey[dateKey].id,
                                      OrNull(x.date_value)),
              !.issued = Op(st, "update", "sailing_dates", dateKey, TRUE),
              !.imp.upsertDates = @ + 1]
    ELSE
      IF failAt = "date"
      THEN Fail(st, "insert", "sailing_dates", dateKey, "insert date")
      ELSE
        LET data == [id |-> st.db.nextId, sailing_id |-> st.cur.sailing.id,
                     service_port_id |-> st.cur.port.id,
                     date_value |-> OrNull(x.date_value)]
        IN  [st EXCEPT
               !.db.dates = Append(@, data), !.db.nextId = @ + 1,
               !.issued = Op(st, "insert", "sailing_dates", dateKey, TRUE),
               !.imp.upsertDates = @ + 1]

\* UpsertDate that counts the inserted dates only
UpsertDateCountsInserts(st, x, failAt) ==
  IF st.err # NoErr THEN st
  ELSE
    LET dateKey == MapKey(<<st.cur.sailing.id, st.cur.port.id>>, <<>>) IN
    IF dateKey \in DOMAIN st.imp.dateByKey
    THEN
      IF failAt = "date"
      THEN Fail(st, "update", "sailing_dates", dateKey, "update date")
      ELSE [st EXCEPT
              !.db.dates = UpdateDate(@, st.imp.dateByKey[dateKey].id,
                                      OrNull(x.date_value)),
              !.issued = Op(st, "update", "sailing_dates", dateKey, TRUE)]
    ELSE
      IF failAt = "date"
      THEN Fail(st, "insert", "sailing_dates", dateKey, "insert date")
      ELSE
        LET data == [id |-> st.db.nextId, sailing_id |-> st.cur.sailing.id,
                     service_port_id |-> st.cur.port.id,
                     date_value |-> OrNull(x.date_value)]
        IN  [st EXCEPT
               !.db.dates = Append(@, data), !.db.nextId = @ + 1,
               !.issued = Op(st, "insert", "sailing_dates", dateKey, TRUE),
               !.imp.dateByKey = MapSet(@, dateKey, data),
               !.imp.upsertDates = @ + 1]

\* E) upsert sailing_date
UpsertDate(st, x, failAt) ==
  IF st.err # NoErr THEN st
  ELSE
    LET dateKey == MapKey(<<st.cur.sailing.id, st.cur.port.id>>, <<>>) IN
    IF dateKey \in DOMAIN st.imp.dateByKey
    THEN
      IF failAt = "date"
      THEN Fail(st, "update", "sailing_dates", dateKey, "update date")
      ELSE [st EXCEPT
              !.db.dates = UpdateDate(@, st.imp.dateByKey[dateKey].id,
                                      OrNull(x.date_value)),
              !.issued = Op(st, "update", "sailing_dates", dateKey, TRUE),
              !.imp.upsertDates = @ + 1]
    ELSE
      IF failAt = "date"
      THEN Fail(st, "insert", "sailing_dates", dateKey, "insert date")
      ELSE
        LET data == [id |-> st.db.nextId, sailing_id |-> st.cur.sailing.id,
                     service_port_id |-> st.cur.port.id,
                     date_value |-> OrNull(x.date_value)]
        IN  [st EXCEPT
               !.db.dates = Append(@, data), !.db.nextId = @ + 1,
               !.issued = Op(st, "insert", "sailing_dates", dateKey, TRUE),
               !.imp.dateByKey = MapSet(@, dateKey, data),
               !.imp.upsertDates = @ + 1]

FailPoints == {"none", "group", "service", "port", "sailing", "date"}

\* RowBody that validates the row only after ensuring its group
RowBodyValidateLate(st, r, y, w, failAt) ==
  LET x == NormRow(r, y, w)
      g == IF x.group_code = <<>> THEN st ELSE EnsureGroup(st, x, failAt)
  IN
  IF RowInvalid(x) THEN [g EXCEPT !.imp.skipped = @ + 1]
  ELSE UpsertDate(EnsureSailing(EnsurePort(EnsureService(g,
         x, failAt), x, failAt), x, failAt), x, failAt)

\* RowBody that ensures the sailing before the port
RowBodySailingFirst(st, r, y, w, failAt) ==
  LET x == NormRow(r, y, w) IN
  IF RowInvalid(x) THEN [st EXCEPT !.imp.skipped = @ + 1]
  ELSE UpsertDate(EnsurePort(EnsureSailing(EnsureService(EnsureGroup(
         st, x, failAt), x, failAt), x, failAt), x, failAt), x, failAt)

\* One iteration of the row loop: the state it leaves, st.err set when a
\* persistence step failed.
RowBody(st, r, y, w, failAt) ==
  LET x == NormRow(r, y, w) IN
  IF RowInvalid(x) THEN [st EXCEPT !.imp.skipped = @ + 1]
  ELSE UpsertDate(EnsureSailing(EnsurePort(EnsureService(EnsureGroup(
         st, x, failAt), x, failAt), x, failAt), x, failAt), x, failAt)

\* showAlert(`Import done ... Rows:.. | Groups +.. | ... | Skipped ..`)
DoneAlert(c) ==
  [kind |-> "import done", rows |-> c.i, groups |-> c.createdGroups,
   services |-> c.createdServices, ports |-> c.createdPorts,
   vessels |-> c.createdSailings, dates |-> c.upsertDates, skipped |-> c.skipped]

\* showAlert(`Import error: ${errorMessage}`) for `Row ${i + 1} <step>: ...`
ErrorAlert(e) == [kind |-> "import error", row |-> e.row, step |-> e.step]

\* importExcel called without an admin session
ImportDenied ==
  /\ ~isAdmin
  /\ alert' = [kind |-> "admin access required"]
  /\ fileInput' = ChosenFile
  /\ UNCHANGED <<db, year, week, isAdmin, pending, showDeleteModal, selectedVars, authVars, libraryVars, imp2, editMode, out, busy, ui, imp, issued, ops, mode, file, saved>>

\* importExcel on a sheet without data rows
ImportEmpty ==
  /\ isAdmin /\ imp.pc = "idle" /\ mode = "free" /\ ops < MaxOps
  /\ alert' = [kind |-> "excel file is empty"]
  /\ busy' = FALSE
  /\ ops' = ops + 1
  /\ fileInput' = NoFile
  /\ UNCHANGED <<db, year, week, isAdmin, pending, showDeleteModal, selectedVars, authVars, libraryVars, imp2, editMode, out, ui, imp, issued, mode, file, saved>>

\* importExcel when one of the five selects returns an error
ImportLoadFail ==
  /\ isAdmin /\ imp.pc = "idle" /\ mode = "free" /\ ops < MaxOps
  /\ alert' = [kind |-> "import error", row |-> 0, step |-> "load"]
  /\ busy' = FALSE
  /\ ops' = ops + 1
  /\ fileInput' = NoFile
  /\ UNCHANGED <<db, year, week, isAdmin, pending, showDeleteModal, selectedVars, authVars, libraryVars, imp2, editMode, out, ui, imp, issued, mode, file, saved>>

\* importExcel up to the row loop, for a sheet with data rows.  The sheet's
\* length json.length is read only as the loop bound and in the final alert:
\* the sheet ends where ImportEnd is taken.
ImportBegin ==
  /\ isAdmin /\ imp.pc = "idle"
  /\ busy' = TRUE
  /\ imp' = LoadImport(db)
  /\ issued' = <<>>
  /\ fileInput' = ChosenFile
  /\ UNCHANGED <<db, year, week, isAdmin, pending, showDeleteModal, selectedVars, authVars, libraryVars, imp2, editMode, out, ui, alert, ops>>

\* ImportRowStep whose catch block undoes what the failed row had inserted
ImportRowStepRollback(r, failAt) ==
  /\ imp.pc = "rows"
  /\ LET st == RowBody([db |-> db, imp |-> imp, issued |-> issued,
                        err |-> NoErr, cur |-> NoCur], r, year, week, failAt)
     IN  /\ issued' = st.issued
         /\ IF st.err # NoErr
            THEN /\ db' = db
                 /\ imp' = IdleImp
                 /\ alert' = ErrorAlert(st.err)
                 /\ busy' = FALSE
                 /\ fileInput' = NoFile
            ELSE /\ failAt = "none"
                 /\ db' = st.db
                 /\ imp' = [st.imp EXCEPT !.i = @ + 1]
                 /\ UNCHANGED <<alert, busy, fileInput>>
  /\ ops' = ops + 1
  /\ UNCHANGED <<year, week, isAdmin, pending, showDeleteModal, selectedVars, authVars, libraryVars, imp2, editMode, out, ui>>

\* one iteration of the row loop on row r, and the catch/finally blocks when a
\* persistence step of it fails
ImportRowStep(r, failAt) ==
  /\ imp.pc = "rows"
  /\ LET st == RowBody([db |-> db, imp |-> imp, issued |-> issued,
                        err |-> NoErr, cur |-> NoCur], r, year, week, failAt)
     IN  /\ db' = st.db
         /\ issued' = st.issued
         /\ IF st.err # NoErr
            THEN /\ imp' = IdleImp
                 /\ alert' = ErrorAlert(st.err)
                 /\ busy' = FALSE
                 /\ fileInput' = NoFile
            ELSE /\ failAt = "none"
                 /\ imp' = [st.imp EXCEPT !.i = @ + 1]
                 /\ UNCHANGED <<alert, busy, fileInput>>
  /\ ops' = ops + 1
  /\ UNCHANGED <<year, week, isAdmin, pending, showDeleteModal, selectedVars, authVars, libraryVars, imp2, editMode, out, ui>>

\* ImportEnd without the finally block of importExcel
ImportEndNoFinally ==
  /\ imp.pc = "rows" /\ imp.i >= 1
  /\ alert' = DoneAlert(imp)
  /\ ui' = refreshAll(db, year, week)
  /\ busy' = FALSE
  /\ imp' = IdleImp
  /\ fileInput' = fileInput
  /\ UNCHANGED <<db, year, week, isAdmin, pending, showDeleteModal, selectedVars, authVars, libraryVars, imp2, editMode, out, issued, ops>>

\* after the last row: the summary alert, refreshAll, finally
ImportEnd ==
  /\ imp.pc = "rows" /\ imp.i >= 1
  /\ alert' = DoneAlert(imp)
  /\ ui' = refreshAll(db, year, week)
  /\ busy' = FALSE
  /\ imp' = IdleImp
  /\ fileInput' = NoFile
  /\ UNCHANGED <<db, year, week, isAdmin, pending, showDeleteModal, selectedVars, authVars, libraryVars, imp2, editMode, out, issued, ops>>

StartImport ==
  /\ mode = "free" /\ ops < MaxOps
  /\ ImportBegin
  /\ UNCHANGED <<mode, file, saved>>

ImportRow ==
  /\ mode = "free" /\ ops < MaxOps
  /\ \E r \in RowSet, failAt \in FailPoints : ImportRowStep(r, failAt)
  /\ UNCHANGED <<mode, file, saved>>

ImportFinish ==
  /\ mode = "free"
  /\ ImportEnd
  /\ UNCHANGED <<mode, file, saved>>

\* ------------------------------------------------------------------ manual CRUD

normalizePortName(s) == toUpperCase(trim(s))

PortNameInputs == {BATAM, <<"s","i","n"," ">>}
VesselInputs == {VA, va}

UiServiceIds == {ui.services[k].id : k \in DOMAIN ui.services}

\* handleAddPort with the form filled for service sid
handleAddPort(sid, port_name, event_type, ok) ==
  /\ isAdmin /\ mode = "free" /\ ops < MaxOps
  /\ sid \in UiServiceIds
  /\ LET servicePorts == SelectSeq(ui.ports, LAMBDA p : p.service_id = sid)
         row == [id |-> db.nextId, service_id |-> sid,
                 port_name |-> normalizePortName(port_name),
                 event_type |-> event_type,
                 sequence |-> Len(servicePorts) + 1]
     IN  IF ok
         THEN /\ db' = [db EXCEPT !.ports = Append(@, row), !.nextId = @ + 1]
              /\ ui' = refreshAll(db', year, week)
              /\ alert' = [kind |-> "port added"]
              /\ busy' = FALSE
         ELSE /\ alert' = [kind |-> "error"]
              /\ UNCHANGED <<db, ui, busy>>
  /\ ops' = ops + 1
  /\ UNCHANGED <<year, week, isAdmin, fileInput, pending, showDeleteModal, selectedVars, authVars, libraryVars, imp2, editMode, out, imp, issued, mode, file, saved>>

\* handleAddSailing with the form filled for service sid
handleAddSailing(sid, vessel, voyage, ok) ==
  /\ isAdmin /\ mode = "free" /\ ops < MaxOps
  /\ sid \in UiServiceIds
  /\ LET row == [id |-> db.nextId, service_id |-> sid,
                 year |-> year, week |-> week,
                 vessel |-> trim(vessel), voyage |-> trim(voyage),
                 connecting_vessel |-> Null, connecting_voyage |-> Null,
                 status |-> "SCHEDULED"]
     IN  IF ok
         THEN /\ db' = [db EXCEPT !.sailings = Append(@, row), !.nextId = @ + 1]
              /\ ui' = refreshAll(db', year, week)
              /\ alert' = [kind |-> "vessel added"]
              /\ busy' = FALSE
         ELSE /\ alert' = [kind |-> "error"]
              /\ UNCHANGED <<db, ui, busy>>
  /\ ops' = ops + 1
  /\ UNCHANGED <<year, week, isAdmin, fileInput, pending, showDeleteModal, selectedVars, authVars, libraryVars, imp2, editMode, out, imp, issued, mode, file, saved>>

AddPort ==
  \E sid \in UiServiceIds, n \in PortNameInputs, e \in {ETD, ETA}, ok \in BOOLEAN :
    handleAddPort(sid, n, e, ok)

AddSailing ==
  \E sid \in UiServiceIds, v \in VesselInputs, ok \in BOOLEAN :
    handleAddSailing(sid, v, W1, ok)

\* sailingDateMap: the loaded dates by `${sailing_id}_${service_port_id}`
sailingDateMap(dates) ==
  BuildMap(dates, [j \in DOMAIN dates |-> DateKey(dates[j])])

\* the "Editing ON / OFF" button
ToggleEditMode ==
  /\ isAdmin /\ mode = "free"
  /\ editMode' = ~editMode
  /\ UNCHANGED <<db, year, week, isAdmin, fileInput, pending, showDeleteModal, selectedVars, authVars, libraryVars, imp2, busy, ui, alert, imp, issued, ops, mode,
                 file, saved, out>>

\* what the date input of a cell can hold when it is saved
CellValues == {D22iso, <<>>}

\* updateCell for the cell (sailingId, servicePortId) of the displayed table
updateCell(sailingId, servicePortId, value, ok) ==
  /\ isAdmin /\ editMode /\ mode = "free" /\ ops < MaxOps
  /\ LET cellKey == MapKey(<<sailingId, servicePortId>>, <<>>)
         map == sailingDateMap(ui.sailingDates)
         row == [id |-> db.nextId, sailing_id |-> sailingId,
                 service_port_id |-> servicePortId, date_value |-> OrNull(value)]
     IN  IF ok
         THEN /\ db' = IF cellKey \in DOMAIN map
                       THEN [db EXCEPT !.dates = UpdateDate(@, map[cellKey].id, OrNull(value))]
                       ELSE [db EXCEPT !.dates = Append(@, row), !.nextId = @ + 1]
              /\ ui' = refreshAll(db', year, week)
              /\ alert' = [kind |-> "date updated"]
         ELSE /\ alert' = [kind |-> "error"]
              /\ UNCHANGED <<db, ui>>
  /\ ops' = ops + 1
  /\ UNCHANGED <<year, week, isAdmin, fileInput, pending, showDeleteModal, selectedVars, authVars, libraryVars, imp2, editMode, out, busy, imp, issued, mode, file, saved>>

\* the cells of the displayed tables: a sailing and a port of its service
UiCells ==
  {c \in (DOMAIN ui.sailings) \X (DOMAIN ui.ports) :
     ui.sailings[c[1]].service_id = ui.ports[c[2]].service_id}

UpdateCell ==
  \E c \in UiCells, value \in CellValues, ok \in BOOLEAN :
    updateCell(ui.sailings[c[1]].id, ui.ports[c[2]].id, value, ok)

\* How the store may execute delete().eq("id", id): the schema is no part of
\* the source, so the row's dependants are removed with it ("cascade"), keep
\* the delete from happening ("restrict"), or stay behind ("none").
Backends == {"cascade", "restrict", "none"}

ServicesOfGroups(d, gids) ==
  {d.services[k].id : k \in {j \in DOMAIN d.services : d.services[j].group_id \in gids}}
PortsOfServices(d, sids) ==
  {d.ports[k].id : k \in {j \in DOMAIN d.ports : d.ports[j].service_id \in sids}}
SailingsOfServices(d, sids) ==
  {d.sailings[k].id : k \in {j \in DOMAIN d.sailings : d.sailings[j].service_id \in sids}}
DatesOfCells(d, sailingIds, portIds) ==
  {d.dates[k].id : k \in {j \in DOMAIN d.dates :
      d.dates[j].sailing_id \in sailingIds \/ d.dates[j].service_port_id \in portIds}}

\* the rows that depend on row id of a table, by table
Dependants(d, type, id) ==
  LET sids == IF type = "group" THEN ServicesOfGroups(d, {id})
              ELSE IF type = "service" THEN {id} ELSE {}
      pids == IF type = "port" THEN {id} ELSE PortsOfServices(d, sids)
      lids == IF type = "sailing" THEN {id} ELSE SailingsOfServices(d, sids)
  IN  [services |-> IF type = "group" THEN sids ELSE {},
       ports    |-> IF type = "port" THEN {} ELSE pids,
       sailings |-> IF type = "sailing" THEN {} ELSE lids,
       dates    |-> DatesOfCells(d, lids, pids)]

NoDependants(d, type, id) ==
  LET dep == Dependants(d, type, id)
  IN  dep.services = {} /\ dep.ports = {} /\ dep.sailings = {} /\ dep.dates = {}

Without(seq, ids) == SelectSeq(seq, LAMBDA x : x.id \notin ids)

\* supabase.from(table).delete().eq("id", id)
StoreDelete(d, type, id, backend) ==
  LET dep == Dependants(d, type, id)
      own == [d EXCEPT
                !.groups   = IF type = "group" THEN Without(@, {id}) ELSE @,
                !.services = IF type = "service" THEN Without(@, {id}) ELSE @,
                !.ports    = IF type = "port" THEN Without(@, {id}) ELSE @,
                !.sailings = IF type = "sailing" THEN Without(@, {id}) ELSE @]
  IN  IF backend = "restrict" /\ ~NoDependants(d, type, id) THEN d
      ELSE IF backend = "cascade"
      THEN [own EXCEPT
              !.services = Without(@, dep.services),
              !.ports    = Without(@, dep.ports),
              !.sailings = Without(@, dep.sailings),
              !.dates    = Without(@, dep.dates)]
      ELSE own

\* handleDeleteItem(type) with the item of that type selected in the modal
handleDeleteItem(type, id, backend) ==
  /\ isAdmin /\ mode = "free" /\ ops < MaxOps
  /\ db' = StoreDelete(db, type, id, backend)
  /\ ui' = refreshAll(db', year, week)
  /\ showDeleteModal' = FALSE
  /\ alert' = [kind |-> "deleted", type |-> type]
  /\ ops' = ops + 1
  /\ UNCHANGED <<year, week, isAdmin, fileInput, pending, selectedVars, authVars, libraryVars, imp2, editMode, out, busy, imp, issued, mode, file, saved>>

\* the items the page shows a delete button for
UiItems ==
  {<<"group", ui.serviceGroups[k].id>> : k \in DOMAIN ui.serviceGroups}
    \cup {<<"service", ui.services[k].id>> : k \in DOMAIN ui.services}
    \cup {<<"port", ui.ports[k].id>> : k \in DOMAIN ui.ports}
    \cup {<<"sailing", ui.sailings[k].id>> : k \in DOMAIN ui.sailings}

DeleteItem ==
  \E item \in UiItems, backend \in Backends :
    handleDeleteItem(item[1], item[2], backend)

\* ------------------------------------------------------------------ derived views

\* String.prototype.includes
Contains(s, sub) ==
  \E k \in 0..(Len(s) - Len(sub)) : SubSeq(s, k + 1, k + Len(sub)) = sub

IsLeap(y) == (y % 4 = 0 /\ y % 100 # 0) \/ y % 400 = 0

DaysInMonth(y, m) ==
  IF m = 2 THEN (IF IsLeap(y) THEN 29 ELSE 28)
  ELSE IF m \in {4, 6, 9, 11} THEN 30 ELSE 31

\* days from 1970-01-01 to the civil date y-m-d
DaysFromCivil(y, m, d) ==
  LET yy  == IF m <= 2 THEN y - 1 ELSE y
      era == yy \div 400
      yoe == yy - era * 400
      mp  == (m + 9) % 12
      doy == (153 * mp + 2) \div 5 + d - 1
      doe == yoe * 365 + yoe \div 4 - yoe \div 100 + doy
  IN  era * 146097 + doe - 719468

\* the fields of a string of the form YYYY-MM-DD
IsoFields(s) ==
  [y |-> DigitsValue(SubSeq(s, 1, 4)), m |-> DigitsValue(SubSeq(s, 6, 7)),
   d |-> DigitsValue(SubSeq(s, 9, 10))]

\* s is YYYY-MM-DD and names a day of the calendar
IsCalendarDate(s) ==
  /\ MatchesISO(s)
  /\ LET f == IsoFields(s)
     IN  f.m \in 1..12 /\ f.d \in 1..DaysInMonth(f.y, f.m)

\* 60 * 60 * 24: times are kept in seconds, the factor 1000 of getTime()
\* cancelling against the 1000 of the divisor in calculateDuration
SecPerDay == 86400

\* new Date(s).getTime() / 1000 for a stored date value: a date-only ISO
\* string is midnight UTC of that day; a string that names no day gives NaN.
getTime(s) ==
  IF IsCalendarDate(s)
  THEN LET f == IsoFields(s) IN DaysFromCivil(f.y, f.m, f.d) * SecPerDay
  ELSE NaN

Abs(n) == IF n < 0 THEN -n ELSE n

\* calculateDuration without Math.abs
calculateDurationSigned(startDateStr, endDateStr) ==
  IF startDateStr = <<>> \/ endDateStr = <<>> THEN 0
  ELSE
    LET startDate == getTime(startDateStr)
        endDate   == getTime(endDateStr)
    IN  IF startDate = NaN \/ endDate = NaN THEN 0
        ELSE LET diffTime == endDate - startDate
             IN  IF diffTime < 0 THEN -((-diffTime) \div SecPerDay)
                 ELSE (diffTime + SecPerDay - 1) \div SecPerDay

calculateDuration(startDateStr, endDateStr) ==
  IF startDateStr = <<>> \/ endDateStr = <<>> THEN 0
  ELSE
    LET startDate == getTime(startDateStr)
        endDate   == getTime(endDateStr)
    IN  IF startDate = NaN \/ endDate = NaN THEN 0
        ELSE LET diffTime == Abs(endDate - startDate)
             IN  (diffTime + SecPerDay - 1) \div SecPerDay

\* Array.prototype.sort(comparefn) of seq, cmp[i][j] being comparefn(seq[i],
\* seq[j]) with NaN read as 0, as V8 runs it on an array shorter than 64: the
\* leading run is taken as it stands (reversed when strictly descending) and
\* the other elements are placed by binary insertion.  For a consistent
\* comparefn this is the stable sort every engine returns.
ArraySort(seq, cmp) ==
  LET n == Len(seq)
      RECURSIVE RunEnd(_, _)
      RunEnd(k, desc) ==
        IF k > n THEN n
        ELSE IF desc = (cmp[k - 1][k] > 0) THEN RunEnd(k + 1, desc)
        ELSE k - 1
      desc == n >= 2 /\ cmp[1][2] > 0
      run == IF n < 2 THEN n ELSE RunEnd(3, desc)
      first == [k \in 1..run |-> IF desc THEN run + 1 - k ELSE k]
      RECURSIVE Pos(_, _, _, _)
      Pos(sorted, p, left, right) ==
        IF left >= right THEN left
        ELSE LET mid == left + (right - left) \div 2
             IN  IF cmp[p][sorted[mid + 1]] < 0 THEN Pos(sorted, p, left, mid)
                 ELSE Pos(sorted, p, mid + 1, right)
      RECURSIVE F(_, _)
      F(k, sorted) ==
        IF k > n THEN sorted
        ELSE LET pos == Pos(sorted, k, 0, Len(sorted))
             IN  F(k + 1, SubSeq(sorted, 1, pos) \o <<k>>
                            \o SubSeq(sorted, pos + 1, Len(sorted)))
      order == F(run + 1, first)
  IN  [k \in 1..n |-> seq[order[k]]]

\* the keys of a Map filled by `if (!map.has(x.service_id)) map.set(...)` over
\* rows, in insertion order
RECURSIVE ServiceOrder(_)
ServiceOrder(rows) ==
  IF rows = <<>> THEN <<>>
  ELSE LET rest == ServiceOrder(SubSeq(rows, 1, Len(rows) - 1))
           sid  == rows[Len(rows)].service_id
       IN  IF \E k \in DOMAIN rest : rest[k] = sid THEN rest ELSE Append(rest, sid)

OfService(rows, sid) == SelectSeq(rows, LAMBDA x : x.service_id = sid)

\* "Prioritize BATAM ETD"
BATAMAnchor == BATAM

isBatam(port) ==
  Contains(toUpperCase(port.port_name), BATAMAnchor) /\ port.event_type = ETD

\* PortCompare without the anchor priority
PortCompareSequenceOnly(a, b) == a.sequence - b.sequence

\* the comparefn of portList.sort
PortCompare(a, b) ==
  IF isBatam(a) /\ ~isBatam(b) THEN -1
  ELSE IF ~isBatam(a) /\ isBatam(b) THEN 1
  ELSE a.sequence - b.sequence

\* portsByService.get(sid) || []
PortsOf(ports, sid) ==
  LET portList == OfService(ports, sid)
  IN  ArraySort(portList,
        [i \in DOMAIN portList |-> [j \in DOMAIN portList |->
           PortCompare(portList[i], portList[j])]])

\* portsByService: its keys in insertion order and the sorted list of each
portsByService(ports) ==
  LET keys == ServiceOrder(ports)
  IN  [keys |-> keys,
       get  |-> [sid \in {keys[k] : k \in DOMAIN keys} |-> PortsOf(ports, sid)]]

\* array.find: the first element, NoRow standing for undefined
FindFirst(list, ok) ==
  IF \E k \in DOMAIN list : ok[k]
  THEN list[CHOOSE k \in DOMAIN list : ok[k] /\ \A j \in 1..(k - 1) : ~ok[j]]
  ELSE NoRow

\* sailingDateMap.get(`${sailingId}_${portId}`)?.date_value || ""
DateValueOf(map, sailingId, portId) ==
  LET key == MapKey(<<sailingId, portId>>, <<>>)
  IN  IF key \in DOMAIN map /\ map[key].date_value # Null
      THEN map[key].date_value ELSE <<>>

\* the comparefn of sailingList.sort, NaN read as 0
SailingCompare(dateA, dateB) ==
  IF dateA = <<>> /\ dateB = <<>> THEN 0
  ELSE IF dateA = <<>> THEN 1
  ELSE IF dateB = <<>> THEN -1
  ELSE IF getTime(dateA) = NaN \/ getTime(dateB) = NaN THEN 0
  ELSE getTime(dateA) - getTime(dateB)

\* sailingsByService.get(sid) || []
SailingsOf(u, sid) ==
  LET sailingList == OfService(u.sailings, sid)
      servicePorts == PortsOf(u.ports, sid)
      batamEtdPort ==
        FindFirst(servicePorts, [k \in DOMAIN servicePorts |-> isBatam(servicePorts[k])])
      map == sailingDateMap(u.sailingDates)
      date == [k \in DOMAIN sailingList |->
                 DateValueOf(map, sailingList[k].id, batamEtdPort.id)]
  IN  IF batamEtdPort = NoRow THEN sailingList
      ELSE ArraySort(sailingList,
             [i \in DOMAIN sailingList |-> [j \in DOMAIN sailingList |->
                SailingCompare(date[i], date[j])]])

sailingsByService(u) ==
  LET keys == ServiceOrder(u.sailings)
  IN  [keys |-> keys,
       get  |-> [sid \in {keys[k] : k \in DOMAIN keys} |-> SailingsOf(u, sid)]]

\* servicesByGroup: its keys in insertion order and the services of each, in
\* the order of the loaded array
servicesByGroup(services) ==
  LET keys == ServiceOrder([k \in DOMAIN services |-> [service_id |-> services[k].group_id]])
  IN  [keys |-> keys,
       get  |-> [gid \in {keys[k] : k \in DOMAIN keys} |->
                   SelectSeq(services, LAMBDA s : s.group_id = gid)]]

\* the four memo maps as a render builds them from the loaded arrays
MemoMaps(u) ==
  [fn |-> "memo maps",
   sailingDateMap    |-> sailingDateMap(u.sailingDates),
   servicesByGroup   |-> servicesByGroup(u.services),
   portsByService    |-> portsByService(u.ports),
   sailingsByService |-> sailingsByService(u)]

\* Array.from(portsByService.values()).flat()
RECURSIVE Flat(_, _)
Flat(m, k) == IF k > Len(m.keys) THEN <<>> ELSE m.get[m.keys[k]] \o Flat(m, k + 1)

\* port.port_name includes name (both upper-cased) and port.event_type is event
PortMatches(port, name, event) ==
  Contains(toUpperCase(port.port_name), toUpperCase(name)) /\ port.event_type = event

Unavailable == [available |-> FALSE, days |-> 0]

\* the duration computed from two resolved ports, or null
DurationBetween(u, sailingId, originPort, destinationPort) ==
  IF originPort = NoRow \/ destinationPort = NoRow THEN Unavailable
  ELSE
    LET map == sailingDateMap(u.sailingDates)
        originDate == DateValueOf(map, sailingId, originPort.id)
        destinationDate == DateValueOf(map, sailingId, destinationPort.id)
    IN  IF originDate = <<>> \/ destinationDate = <<>> THEN Unavailable
        ELSE [available |-> TRUE,
              days |-> calculateDuration(originDate, destinationDate)]

\* calculateVoyageDuration resolving the ports within the sailing's own service
calculateVoyageDurationOwnService(u, sailingId, origin, destination) ==
  LET own == SelectSeq(u.sailings, LAMBDA s : s.id = sailingId)
      servicePorts == IF own = <<>> THEN <<>> ELSE PortsOf(u.ports, own[1].service_id)
      originPort == FindFirst(servicePorts,
        [k \in DOMAIN servicePorts |-> PortMatches(servicePorts[k], origin, ETD)])
      destinationPort == FindFirst(servicePorts,
        [k \in DOMAIN servicePorts |-> PortMatches(servicePorts[k], destination, ETA)])
  IN  DurationBetween(u, sailingId, originPort, destinationPort)

calculateVoyageDuration(u, sailingId, origin, destination) ==
  LET servicePorts == Flat(portsByService(u.ports), 1)
      originPort == FindFirst(servicePorts,
        [k \in DOMAIN servicePorts |-> PortMatches(servicePorts[k], origin, ETD)])
      destinationPort == FindFirst(servicePorts,
        [k \in DOMAIN servicePorts |-> PortMatches(servicePorts[k], destination, ETA)])
  IN  DurationBetween(u, sailingId, originPort, destinationPort)

\* the suggestions pushed by the forEach of findVesselSuggestions, unsorted
RECURSIVE Suggestions(_, _, _, _)
Suggestions(u, origin, destination, k) ==
  IF k > Len(u.sailings) THEN <<>>
  ELSE
    LET sailing == u.sailings[k]
        servicePorts == PortsOf(u.ports, sailing.service_id)
        originPort == FindFirst(servicePorts,
          [j \in DOMAIN servicePorts |-> PortMatches(servicePorts[j], origin, ETD)])
        destinationPort == FindFirst(servicePorts,
          [j \in DOMAIN servicePorts |-> PortMatches(servicePorts[j], destination, ETA)])
        d == DurationBetween(u, sailing.id, originPort, destinationPort)
        map == sailingDateMap(u.sailingDates)
        rest == Suggestions(u, origin, destination, k + 1)
    IN  IF d.available
        THEN <<[sailing |-> sailing,
                originDate |-> DateValueOf(map, sailing.id, originPort.id),
                destinationDate |-> DateValueOf(map, sailing.id, destinationPort.id),
                duration |-> d.days,
                originPort |-> originPort.port_name,
                destinationPort |-> destinationPort.port_name]>> \o rest
        ELSE rest

\* findVesselSuggestions without the final sort
findVesselSuggestionsUnsorted(u, origin, destination) ==
  IF origin = <<>> \/ destination = <<>> THEN <<>>
  ELSE Suggestions(u, origin, destination, 1)

findVesselSuggestions(u, origin, destination) ==
  IF origin = <<>> \/ destination = <<>> THEN <<>>
  ELSE
    LET suggestions == Suggestions(u, origin, destination, 1)
    IN  ArraySort(suggestions,
          [i \in DOMAIN suggestions |-> [j \in DOMAIN suggestions |->
             suggestions[i].duration - suggestions[j].duration]])

\* ------------------------------------------------------------------ specification

Init ==
  /\ db = EmptyDb
  /\ year = DefaultYear
  /\ week = DefaultWeek
  /\ isAdmin \in BOOLEAN
  /\ busy = FALSE
  /\ ui = refreshAll(EmptyDb, DefaultYear, DefaultWeek)
  /\ alert = NoAlert
  /\ imp = IdleImp
  /\ imp2 = IdleImp
  /\ Untouched
  /\ issued = <<>>
  /\ ops = 0
  /\ mode = "free"
  /\ file = <<>>
  /\ saved = EmptyDb
  /\ editMode = FALSE
  /\ out = NoOut

Next ==
  \/ ImportDenied
  \/ ImportEmpty
  \/ ImportLoadFail
  \/ StartImport
  \/ ImportRow
  \/ ImportFinish
  \/ AddPort
  \/ AddSailing

Spec == Init /\ [][Next]_vars

\* ------------------------------------------------------------------ imports that run to their end

NextLive ==
  \/ ImportDenied
  \/ ImportEmpty
  \/ ImportLoadFail
  \/ StartImport
  \/ ImportRow
  \/ ImportFinish

\* Every awaited persistence call returns and the continuation of the call
\* then runs.  The sheet holds a first row, whose iteration therefore ends:
\* the batch does not stay before its first row.  The sheet is finite: a
\* batch that has processed a row reaches, unless a row aborts it before, the
\* end of its try block.
SpecLive ==
  /\ Init /\ [][NextLive]_vars
  /\ []<>~(imp.pc = "rows" /\ imp.i = 0)
  /\ WF_vars(ImportFinish)

\* ------------------------------------------------------------------ the same file imported twice

\* The admin picks a file and the rows it holds are kept, to be imported again.
FirstBegin ==
  /\ mode = "free" /\ ops < MaxOps
  /\ ImportBegin
  /\ mode' = "first" /\ file' = <<>>
  /\ UNCHANGED saved

FirstRow ==
  /\ mode = "first" /\ ops < MaxOps
  /\ \E r \in RowSet, failAt \in FailPoints :
       /\ ImportRowStep(r, failAt)
       /\ file' = Append(file, r)
  /\ mode' = IF imp'.pc = "idle" THEN "aborted" ELSE "first"
  /\ UNCHANGED saved

FirstEnd ==
  /\ mode = "first"
  /\ ImportEnd
  /\ mode' = "between" /\ saved' = db
  /\ UNCHANGED file

SecondBegin ==
  /\ mode = "between"
  /\ ImportBegin
  /\ mode' = "second"
  /\ UNCHANGED <<file, saved>>

SecondRow ==
  /\ mode = "second" /\ imp.i < Len(file)
  /\ \E failAt \in FailPoints : ImportRowStep(file[imp.i + 1], failAt)
  /\ mode' = IF imp'.pc = "idle" THEN "aborted" ELSE "second"
  /\ UNCHANGED <<file, saved>>

SecondEnd ==
  /\ mode = "second" /\ imp.i = Len(file)
  /\ ImportEnd
  /\ mode' = "done"
  /\ UNCHANGED <<file, saved>>

NextTwice ==
  \/ Next
  \/ FirstBegin
  \/ FirstRow
  \/ FirstEnd
  \/ SecondBegin
  \/ SecondRow
  \/ SecondEnd

SpecTwice == Init /\ [][NextTwice]_vars

\* ------------------------------------------------------------------ imports, edits and deletes

NextEdit ==
  \/ Next
  \/ ToggleEditMode
  \/ UpdateCell
  \/ DeleteItem

SpecEdit == Init /\ [][NextEdit]_vars

\* ------------------------------------------------------------------ a second batch beside the first

\* The admin chooses another file while a batch is in flight: the upload
\* button and the file input stay enabled, onChange calls importExcel again,
\* and the call loads its own lookup maps.
OverlapBegin ==
  /\ isAdmin /\ mode = "free" /\ ops < MaxOps
  /\ imp.pc = "rows" /\ imp2.pc = "idle"
  /\ busy' = TRUE
  /\ imp2' = LoadImport(db)
  /\ fileInput' = ChosenFile
  /\ UNCHANGED <<db, year, week, isAdmin, pending, showDeleteModal, selectedVars, authVars, libraryVars, editMode, out, ui, alert, imp, issued,
                 ops, mode, file, saved>>

\* one iteration of the second call's row loop; the log `issued` stays the
\* first call's
OverlapRowStep(r, failAt) ==
  /\ mode = "free" /\ ops < MaxOps
  /\ imp2.pc = "rows"
  /\ LET st == RowBody([db |-> db, imp |-> imp2, issued |-> <<>>,
                        err |-> NoErr, cur |-> NoCur], r, year, week, failAt)
     IN  /\ db' = st.db
         /\ IF st.err # NoErr
            THEN /\ imp2' = IdleImp
                 /\ alert' = ErrorAlert(st.err)
                 /\ busy' = FALSE
                 /\ fileInput' = NoFile
            ELSE /\ failAt = "none"
                 /\ imp2' = [st.imp EXCEPT !.i = @ + 1]
                 /\ UNCHANGED <<alert, busy, fileInput>>
  /\ ops' = ops + 1
  /\ UNCHANGED <<year, week, isAdmin, pending, showDeleteModal, selectedVars, authVars, libraryVars, editMode, out, ui, imp, issued, mode, file,
                 saved>>

\* the rows the second file may hold: those of RowSet for group CN and
\* service S1 that have a year
OverlapRowSet ==
  {r \in RowSet : r.group_code = Str(CN) /\ r.service_code = Str(S1) /\ IsNum(r.year)}

OverlapRow ==
  \E r \in OverlapRowSet, failAt \in FailPoints : OverlapRowStep(r, failAt)

\* the second call after its last row
OverlapEnd ==
  /\ mode = "free"
  /\ imp2.pc = "rows" /\ imp2.i >= 1
  /\ alert' = DoneAlert(imp2)
  /\ ui' = refreshAll(db, year, week)
  /\ busy' = FALSE
  /\ imp2' = IdleImp
  /\ fileInput' = NoFile
  /\ UNCHANGED <<db, year, week, isAdmin, pending, showDeleteModal, selectedVars, authVars, libraryVars, editMode, out, imp, issued, ops, mode,
                 file, saved>>

NextOverlap ==
  \/ StartImport
  \/ ImportRow
  \/ ImportFinish
  \/ OverlapBegin
  \/ OverlapRow
  \/ OverlapEnd

SpecOverlap == Init /\ [][NextOverlap]_vars

\* ------------------------------------------------------------------ edits beside a batch, on a schedule with an empty cell

\* The store after an import of TemplateRow and handleAddPort of SIN / ETA for
\* its service: sailing VA has a date at BATAM and none at SIN.
CellDb ==
  [groups   |-> <<[id |-> 1, code |-> CN, sort_order |-> 1]>>,
   services |-> <<[id |-> 2, group_id |-> 1, code |-> S1,
                   sort_order |-> ImportedServiceSortOrder]>>,
   ports    |-> <<[id |-> 3, service_id |-> 2, port_name |-> BATAM,
                   event_type |-> ETD, sequence |-> 1],
                  [id |-> 6, service_id |-> 2, port_name |-> SIN,
                   event_type |-> ETA, sequence |-> 2]>>,
   sailings |-> <<[id |-> 4, service_id |-> 2, year |-> DefaultYear,
                   week |-> DefaultWeek, vessel |-> VA, voyage |-> W1,
                   connecting_vessel |-> Null, connecting_voyage |-> Null,
                   status |-> "SCHEDULED"]>>,
   dates    |-> <<[id |-> 5, sailing_id |-> 4, service_port_id |-> 3,
                   date_value |-> D18iso]>>,
   nextId   |-> 7]

InitCell ==
  /\ db = CellDb
  /\ year = DefaultYear
  /\ week = DefaultWeek
  /\ isAdmin = TRUE
  /\ busy = FALSE
  /\ ui = refreshAll(CellDb, DefaultYear, DefaultWeek)
  /\ alert = [kind |-> "port added"]
  /\ imp = IdleImp
  /\ imp2 = IdleImp
  /\ Untouched
  /\ issued = <<>>
  /\ ops = 0
  /\ mode = "free"
  /\ file = <<>>
  /\ saved = EmptyDb
  /\ editMode = FALSE
  /\ out = NoOut

NextCell ==
  \/ StartImport
  \/ ImportRow
  \/ ImportFinish
  \/ ToggleEditMode
  \/ UpdateCell

SpecCell == InitCell /\ [][NextCell]_vars

\* ------------------------------------------------------------------ the derived views of a loaded schedule

D20iso  == <<"2","0","2","6","-","0","1","-","2","0">>
VC      == <<"V","C">>

\* the sequences of the three ports of service S1: BATAM ETD, SIN ETA,
\* BATAM ETA
ViewSequences == {<<1, 2, 3>>, <<2, 1, 3>>, <<3, 1, 2>>, <<3, 2, 1>>, <<2, 2, 1>>}

\* what a cell holds: no record (<<>>), a record without a date (Null), or a
\* record with the date value an import wrote
AnchorCells == {<<>>, Null, D18iso, D20iso, BadDate}
ArrivalCells == {<<>>, D22iso}

ViewSailing(id, sid, vessel) ==
  [id |-> id, service_id |-> sid, year |-> DefaultYear, week |-> DefaultWeek,
   vessel |-> vessel, voyage |-> W1, connecting_vessel |-> Null,
   connecting_voyage |-> Null, status |-> "SCHEDULED"]

\* the sailing_dates rows of the cells listed in cells, ids from 13 on
RECURSIVE ViewDates(_, _)
ViewDates(cells, id) ==
  IF cells = <<>> THEN <<>>
  ELSE IF Head(cells)[3] = <<>> THEN ViewDates(Tail(cells), id)
  ELSE <<[id |-> id, sailing_id |-> Head(cells)[1],
          service_port_id |-> Head(cells)[2], date_value |-> Head(cells)[3]]>>
         \o ViewDates(Tail(cells), id + 1)

\* A store as imports leave it: group CN with services S1 (three ports, three
\* sailings) and S2 (two ports, one sailing).
ViewDb(seqs, anchor, arrival) ==
  [groups   |-> <<[id |-> 1, code |-> CN, sort_order |-> 1]>>,
   services |-> <<[id |-> 2, group_id |-> 1, code |-> S1, sort_order |-> ImportedServiceSortOrder],
                  [id |-> 3, group_id |-> 1, code |-> S2, sort_order |-> ImportedServiceSortOrder]>>,
   ports    |-> <<[id |-> 4, service_id |-> 2, port_name |-> BATAM, event_type |-> ETD, sequence |-> seqs[1]],
                  [id |-> 5, service_id |-> 2, port_name |-> SIN, event_type |-> ETA, sequence |-> seqs[2]],
                  [id |-> 6, service_id |-> 2, port_name |-> BATAM, event_type |-> ETA, sequence |-> seqs[3]],
                  [id |-> 7, service_id |-> 3, port_name |-> BATAM, event_type |-> ETD, sequence |-> 1],
                  [id |-> 8, service_id |-> 3, port_name |-> SIN, event_type |-> ETA, sequence |-> 2]>>,
   sailings |-> <<ViewSailing(9, 2, VA), ViewSailing(10, 2, VB),
                  ViewSailing(11, 2, VC), ViewSailing(12, 3, VA)>>,
   dates    |-> ViewDates(<<<<9, 4, anchor[1]>>, <<9, 5, arrival[1]>>,
                            <<10, 4, anchor[2]>>, <<10, 5, arrival[2]>>,
                            <<11, 4, anchor[3]>>, <<11, 5, D22iso>>,
                            <<12, 7, D18iso>>, <<12, 8, D22iso>>>>, 13),
   nextId   |-> 21]

InitView ==
  /\ \E seqs \in ViewSequences,
        anchor \in AnchorCells \X AnchorCells \X {<<>>, D18iso, BadDate},
        arrival \in ArrivalCells \X ArrivalCells :
       db = ViewDb(seqs, anchor, arrival)
  /\ year = DefaultYear
  /\ week = DefaultWeek
  /\ isAdmin = FALSE
  /\ busy = FALSE
  /\ ui = refreshAll(db, DefaultYear, DefaultWeek)
  /\ alert = NoAlert
  /\ imp = IdleImp
  /\ imp2 = IdleImp
  /\ Untouched
  /\ issued = <<>>
  /\ ops = 0
  /\ mode = "free"
  /\ file = <<>>
  /\ saved = EmptyDb
  /\ editMode = FALSE
  /\ out = NoOut

\* the destinations offered by the route selector
availableDestinations ==
  {ui.ports[k].port_name : k \in {j \in DOMAIN ui.ports :
     ~Contains(toUpperCase(ui.ports[j].port_name), BATAMAnchor)}}

\* the origin the route selector offers
originPort == BATAM

\* the page renders the port columns of service sid
RenderPorts(sid) ==
  /\ out' = [fn |-> "portsByService", sid |-> sid, list |-> PortsOf(ui.ports, sid)]
  /\ UNCHANGED <<db, year, week, isAdmin, fileInput, pending, showDeleteModal, selectedVars, authVars, libraryVars, imp2, busy, ui, alert, imp, issued, ops, mode,
                 file, saved, editMode>>

\* the page renders the sailing rows of service sid
RenderSailings(sid) ==
  /\ out' = [fn |-> "sailingsByService", sid |-> sid, list |-> SailingsOf(ui, sid)]
  /\ UNCHANGED <<db, year, week, isAdmin, fileInput, pending, showDeleteModal, selectedVars, authVars, libraryVars, imp2, busy, ui, alert, imp, issued, ops, mode,
                 file, saved, editMode>>

\* the duration column of a sailing row for the selected destination
RenderDuration(sailingId, destination) ==
  /\ out' = [fn |-> "calculateVoyageDuration", sailingId |-> sailingId,
             destination |-> destination,
             result |-> calculateVoyageDuration(ui, sailingId, originPort, destination)]
  /\ UNCHANGED <<db, year, week, isAdmin, fileInput, pending, showDeleteModal, selectedVars, authVars, libraryVars, imp2, busy, ui, alert, imp, issued, ops, mode,
                 file, saved, editMode>>

\* handleFindVessels with a destination selected
handleFindVessels(destination) ==
  /\ out' = [fn |-> "findVesselSuggestions", destination |-> destination,
             list |-> findVesselSuggestions(ui, originPort, destination)]
  /\ UNCHANGED <<db, year, week, isAdmin, fileInput, pending, showDeleteModal, selectedVars, authVars, libraryVars, imp2, busy, ui, alert, imp, issued, ops, mode,
                 file, saved, editMode>>

\* BuildViews with portList.sort applied to the loaded ports array itself
BuildViewsInPlace ==
  /\ out' = MemoMaps(ui)
  /\ ui' = [ui EXCEPT !.ports = Flat(portsByService(ui.ports), 1)]
  /\ UNCHANGED <<db, year, week, isAdmin, fileInput, pending, showDeleteModal, selectedVars, authVars, libraryVars, imp2, busy, alert, imp, issued, ops, mode,
                 file, saved, editMode>>

\* a render evaluates the four useMemo builders: each fills a new Map with
\* new arrays and sorts those
BuildViews ==
  /\ out' = MemoMaps(ui)
  /\ UNCHANGED <<db, year, week, isAdmin, fileInput, pending, showDeleteModal, selectedVars, authVars, libraryVars, imp2, busy, ui, alert, imp, issued, ops, mode,
                 file, saved, editMode>>

ViewPorts == \E k \in DOMAIN ui.services : RenderPorts(ui.services[k].id)
ViewSailings == \E k \in DOMAIN ui.services : RenderSailings(ui.services[k].id)
ViewDuration ==
  \E k \in DOMAIN ui.sailings, destination \in availableDestinations :
    RenderDuration(ui.sailings[k].id, destination)
FindVessels == \E destination \in availableDestinations : handleFindVessels(destination)

NextView ==
  \/ ViewPorts
  \/ ViewSailings
  \/ ViewDuration
  \/ FindVessels

SpecView == InitView /\ [][NextView]_vars

\* ------------------------------------------------------------------ the delete confirmation modal

\* The buttons below are rendered for an admin, and none can be clicked while
\* the delete modal covers the page.  The add modals change no state read
\* here once they are closed: a click on their button stands for opening and
\* closing them.
GroupModals == {"delete", "add service"}
ServiceModals == {"delete", "add port", "add vessel"}

\* a group's delete button or its "Add Service" button
ClickGroup ==
  /\ isAdmin /\ ~showDeleteModal
  /\ \E k \in DOMAIN ui.serviceGroups, modal \in GroupModals :
       /\ selectedGroup' = ui.serviceGroups[k].id
       /\ IF modal = "delete"
          THEN /\ showDeleteModal' = TRUE
               /\ clicked' = <<"group", ui.serviceGroups[k].id>>
          ELSE UNCHANGED <<showDeleteModal, clicked>>
  /\ UNCHANGED <<db, year, week, isAdmin, busy, ui, alert, imp, imp2, issued,
                 ops, mode, file, saved, editMode, out, fileInput, pending,
                 selectedService, selectedPort, selectedSailing, authVars,
                 libraryVars>>

\* a service's delete button, or its "Add Port" or "Add Vessel" button
ClickService ==
  /\ isAdmin /\ ~showDeleteModal
  /\ \E k \in DOMAIN ui.services, modal \in ServiceModals :
       /\ selectedService' = ui.services[k].id
       /\ IF modal = "delete"
          THEN /\ showDeleteModal' = TRUE
               /\ clicked' = <<"service", ui.services[k].id>>
          ELSE UNCHANGED <<showDeleteModal, clicked>>
  /\ UNCHANGED <<db, year, week, isAdmin, busy, ui, alert, imp, imp2, issued,
                 ops, mode, file, saved, editMode, out, fileInput, pending,
                 selectedGroup, selectedPort, selectedSailing, authVars,
                 libraryVars>>

\* the delete button of a port column
ClickDeletePort ==
  /\ isAdmin /\ ~showDeleteModal
  /\ \E k \in DOMAIN ui.ports :
       /\ selectedPort' = ui.ports[k].id
       /\ clicked' = <<"port", ui.ports[k].id>>
  /\ showDeleteModal' = TRUE
  /\ UNCHANGED <<db, year, week, isAdmin, busy, ui, alert, imp, imp2, issued,
                 ops, mode, file, saved, editMode, out, fileInput, pending,
                 selectedGroup, selectedService, selectedSailing, authVars,
                 libraryVars>>

\* the delete button of a vessel row
ClickDeleteSailing ==
  /\ isAdmin /\ ~showDeleteModal
  /\ \E k \in DOMAIN ui.sailings :
       /\ selectedSailing' = ui.sailings[k].id
       /\ clicked' = <<"sailing", ui.sailings[k].id>>
  /\ showDeleteModal' = TRUE
  /\ UNCHANGED <<db, year, week, isAdmin, busy, ui, alert, imp, imp2, issued,
                 ops, mode, file, saved, editMode, out, fileInput, pending,
                 selectedGroup, selectedService, selectedPort, authVars,
                 libraryVars>>

\* onClose of the delete modal
CloseDeleteModal ==
  /\ showDeleteModal
  /\ showDeleteModal' = FALSE
  /\ UNCHANGED <<db, year, week, isAdmin, busy, ui, alert, imp, imp2, issued,
                 ops, mode, file, saved, editMode, out, fileInput, pending,
                 selectedVars, authVars, libraryVars>>

\* onConfirm of the delete modal
ConfirmDelete ==
  /\ showDeleteModal
  /\ \E backend \in Backends :
       IF selectedGroup # NoSelection
       THEN handleDeleteItem("group", selectedGroup, backend)
       ELSE IF selectedService # NoSelection
       THEN handleDeleteItem("service", selectedService, backend)
       ELSE IF selectedPort # NoSelection
       THEN handleDeleteItem("port", selectedPort, backend)
       ELSE /\ selectedSailing # NoSelection
            /\ handleDeleteItem("sailing", selectedSailing, backend)

NextModal ==
  \/ ClickGroup
  \/ ClickService
  \/ ClickDeletePort
  \/ ClickDeleteSailing
  \/ CloseDeleteModal
  \/ ConfirmDelete

SpecModal == InitCell /\ [][NextModal]_vars

\* ------------------------------------------------------------------ year and week changes

MaxPending == 3
Years == {DefaultYear, DefaultYear + 1}
Weeks == {DefaultWeek, DefaultWeek + 1}

\* The year or the week input changes, and the effect on [year, week] calls
\* refreshAll, whose selects carry the year and week of that render.
ChangePeriod ==
  /\ Len(pending) < MaxPending
  /\ \E y \in Years, w \in Weeks :
       /\ (y # year /\ w = week) \/ (y = year /\ w # week)
       /\ year' = y /\ week' = w
       /\ pending' = Append(pending, [year |-> y, week |-> w])
  /\ busy' = TRUE
  /\ UNCHANGED <<db, isAdmin, ui, alert, imp, imp2, issued, ops, mode, file,
                 saved, editMode, out, fileInput, showDeleteModal,
                 selectedVars, authVars, libraryVars>>

\* The selects of one outstanding refreshAll call return and its setters run.
RefreshReturn ==
  /\ \E k \in DOMAIN pending :
       /\ ui' = refreshAll(db, pending[k].year, pending[k].week)
       /\ pending' = SubSeq(pending, 1, k - 1) \o SubSeq(pending, k + 1, Len(pending))
  /\ busy' = FALSE
  /\ UNCHANGED <<db, year, week, isAdmin, alert, imp, imp2, issued, ops, mode,
                 file, saved, editMode, out, fileInput, showDeleteModal,
                 selectedVars, authVars, libraryVars>>

NextRefresh ==
  \/ ChangePeriod
  \/ RefreshReturn

SpecRefresh == InitCell /\ [][NextRefresh]_vars

\* ------------------------------------------------------------------ the session and the editing toggle

\* The page has just mounted on the schedule of CellDb: isAdmin is its
\* initial false, and the getSession() call of the mount effect has not
\* resolved.  seen holds the sessions the call may find, from its call on.
InitAuth ==
  /\ db = CellDb
  /\ year = DefaultYear
  /\ week = DefaultWeek
  /\ isAdmin = FALSE
  /\ busy = FALSE
  /\ ui = refreshAll(CellDb, DefaultYear, DefaultWeek)
  /\ alert = NoAlert
  /\ imp = IdleImp
  /\ imp2 = IdleImp
  /\ fileInput = NoFile
  /\ pending = <<>>
  /\ selectedGroup = NoSelection /\ selectedService = NoSelection
  /\ selectedPort = NoSelection /\ selectedSailing = NoSelection
  /\ showDeleteModal = FALSE
  /\ clicked = <<>>
  /\ session \in BOOLEAN
  /\ sessionCheck = [state |-> "pending", seen |-> {session}]
  /\ storage = {} /\ port_files = <<>> /\ portFiles = <<>> /\ now = 0
  /\ issued = <<>>
  /\ ops = 0
  /\ mode = "free"
  /\ file = <<>>
  /\ saved = EmptyDb
  /\ editMode = FALSE
  /\ out = NoOut

\* The then-callback of getSession(): setIsAdmin(!!data.session), with the
\* session the call found at some moment between its call and its return.
GetSessionResolve ==
  /\ sessionCheck.state = "pending"
  /\ \E s \in sessionCheck.seen : isAdmin' = s
  /\ sessionCheck' = SessionChecked
  /\ UNCHANGED <<db, year, week, busy, ui, alert, imp, imp2, issued, ops, mode,
                 file, saved, editMode, out, fileInput, pending,
                 showDeleteModal, selectedVars, session, libraryVars>>

\* The listener of onAuthStateChange on an event carrying a session (sign-in,
\* token refresh) or none (sign-out).
AuthStateChange ==
  /\ \E s \in BOOLEAN :
       /\ session' = s
       /\ isAdmin' = s
       /\ editMode' = IF ~s THEN FALSE ELSE editMode
       /\ sessionCheck' =
            IF sessionCheck.state = "pending"
            THEN [sessionCheck EXCEPT !.seen = @ \cup {s}]
            ELSE sessionCheck
  /\ UNCHANGED <<db, year, week, busy, ui, alert, imp, imp2, issued, ops, mode,
                 file, saved, out, fileInput, pending, showDeleteModal,
                 selectedVars, libraryVars>>

NextAuth ==
  \/ GetSessionResolve
  \/ AuthStateChange
  \/ ToggleEditMode
  \/ UpdateCell

SpecAuth == InitAuth /\ [][NextAuth]_vars

\* ------------------------------------------------------------------ the PDF library

MaxUploads == 3

\* An object path of the bucket "port-files": its folder and its file name.
\* A file name `${Date.now()}_${safePortName}_W${week}_${year}.${ext}` is
\* told from another by its time stamp: the form holds the same port, week,
\* year and file in every upload.
ObjectPath(folder, fileName) == [folder |-> folder, name |-> fileName]

\* uploadFile with the form filled: the upload to `port-files/${fileName}`,
\* the insert into port_files, loadPortFiles.  Each call may return an
\* error; loadPortFiles keeps the list it had when its select fails.
uploadFile ==
  /\ isAdmin /\ now < MaxUploads
  /\ now' = now + 1
  /\ \E okStorage \in BOOLEAN, okDb \in BOOLEAN, okLoad \in BOOLEAN :
       LET fileName == now'
           record == [id |-> now', port_name |-> BATAM, file_name |-> fileName]
           table == Append(port_files, record)
       IN  IF ~okStorage
           THEN /\ alert' = [kind |-> "upload failed", step |-> "storage"]
                /\ UNCHANGED <<storage, port_files, portFiles>>
           ELSE /\ storage' = storage \cup {ObjectPath("port-files", fileName)}
                /\ IF ~okDb
                   THEN /\ alert' = [kind |-> "upload failed", step |-> "insert"]
                        /\ UNCHANGED <<port_files, portFiles>>
                   ELSE /\ port_files' = table
                        /\ portFiles' = IF okLoad
                                        THEN [k \in DOMAIN table |-> table[Len(table) + 1 - k]]
                                        ELSE portFiles
                        /\ alert' = [kind |-> "file uploaded"]
  /\ UNCHANGED <<db, year, week, isAdmin, busy, ui, imp, imp2, issued, ops,
                 mode, file, saved, editMode, out, fileInput, pending,
                 showDeleteModal, selectedVars, authVars>>

\* deleteFile with fileToDelete a record of the list shown: the removal of
\* the object named [fileToDelete.file_name], the delete of the record,
\* loadPortFiles.  Each call may return an error.
deleteFile ==
  /\ isAdmin
  /\ \E j \in DOMAIN portFiles, okStorage \in BOOLEAN, okDb \in BOOLEAN,
        okLoad \in BOOLEAN :
       LET fileToDelete == portFiles[j]
           table == SelectSeq(port_files, LAMBDA r : r.id # fileToDelete.id)
       IN  IF ~okStorage
           THEN /\ alert' = [kind |-> "delete failed", step |-> "storage"]
                /\ UNCHANGED <<storage, port_files, portFiles>>
           ELSE /\ storage' = storage \ {ObjectPath("", fileToDelete.file_name)}
                /\ IF ~okDb
                   THEN /\ alert' = [kind |-> "delete failed", step |-> "delete"]
                        /\ UNCHANGED <<port_files, portFiles>>
                   ELSE /\ port_files' = table
                        /\ portFiles' = IF okLoad
                                        THEN [k \in DOMAIN table |-> table[Len(table) + 1 - k]]
                                        ELSE portFiles
                        /\ alert' = [kind |-> "file deleted"]
  /\ UNCHANGED <<db, year, week, isAdmin, busy, ui, imp, imp2, issued, ops,
                 mode, file, saved, editMode, out, fileInput, pending,
                 showDeleteModal, selectedVars, authVars, now>>

NextFiles ==
  \/ uploadFile
  \/ deleteFile

SpecFiles == Init /\ [][NextFiles]_vars

\* ------------------------------------------------------------------ route search where two port names match

SINGAPORE == <<"S","I","N","G","A","P","O","R","E">>

\* the sequences of the three ports of service S1: BATAM, SINGAPORE, SIN
RouteSequences == {<<1, 2, 3>>, <<1, 3, 2>>, <<3, 1, 2>>}
RouteAnchorCells == {<<>>, D18iso}
RouteArrivalCells == {<<>>, Null, D22iso}

\* Group CN with service S1 (BATAM ETD, SINGAPORE ETA, SIN ETA; two sailings)
\* and service S2 (BATAM ETD, SIN ETA; one sailing): the name SIN is part of
\* the name SINGAPORE.
RouteDb(seqs, anchor, arrival) ==
  [groups   |-> <<[id |-> 1, code |-> CN, sort_order |-> 1]>>,
   services |-> <<[id |-> 2, group_id |-> 1, code |-> S1, sort_order |-> ImportedServiceSortOrder],
                  [id |-> 3, group_id |-> 1, code |-> S2, sort_order |-> ImportedServiceSortOrder]>>,
   ports    |-> <<[id |-> 4, service_id |-> 2, port_name |-> BATAM, event_type |-> ETD, sequence |-> seqs[1]],
                  [id |-> 5, service_id |-> 2, port_name |-> SINGAPORE, event_type |-> ETA, sequence |-> seqs[2]],
                  [id |-> 6, service_id |-> 2, port_name |-> SIN, event_type |-> ETA, sequence |-> seqs[3]],
                  [id |-> 7, service_id |-> 3, port_name |-> BATAM, event_type |-> ETD, sequence |-> 1],
                  [id |-> 8, service_id |-> 3, port_name |-> SIN, event_type |-> ETA, sequence |-> 2]>>,
   sailings |-> <<ViewSailing(9, 2, VA), ViewSailing(10, 2, VB), ViewSailing(12, 3, VA)>>,
   dates    |-> ViewDates(<<<<9, 4, anchor[1]>>, <<9, 5, arrival[1]>>, <<9, 6, arrival[2]>>,
                            <<10, 4, anchor[2]>>, <<10, 6, arrival[3]>>,
                            <<12, 7, D18iso>>, <<12, 8, D20iso>>>>, 13),
   nextId   |-> 20]

InitRoute ==
  /\ \E seqs \in RouteSequences,
        anchor \in RouteAnchorCells \X RouteAnchorCells,
        arrival \in RouteArrivalCells \X RouteArrivalCells \X RouteArrivalCells :
       db = RouteDb(seqs, anchor, arrival)
  /\ year = DefaultYear
  /\ week = DefaultWeek
  /\ isAdmin = FALSE
  /\ busy = FALSE
  /\ ui = refreshAll(db, DefaultYear, DefaultWeek)
  /\ alert = NoAlert
  /\ imp = IdleImp
  /\ imp2 = IdleImp
  /\ Untouched
  /\ issued = <<>>
  /\ ops = 0
  /\ mode = "free"
  /\ file = <<>>
  /\ saved = EmptyDb
  /\ editMode = FALSE
  /\ out = NoOut

NextRoute ==
  \/ BuildViews
  \/ FindVessels
  \/ ViewDuration

SpecRoute == InitRoute /\ [][NextRoute]_vars

\* ------------------------------------------------------------------ the pure functions on drawn inputs

Day(y, m, d) == [y |-> y, m |-> m, d |-> d]

\* stored date values given to calculateDuration, with the day each names
DurationDates ==
  { [s |-> D18iso, day |-> Day(2026, 1, 18)],
    [s |-> D20iso, day |-> Day(2026, 1, 20)],
    [s |-> D22iso, day |-> Day(2026, 1, 22)],
    [s |-> <<"2","0","2","5","-","1","2","-","3","1">>, day |-> Day(2025, 12, 31)],
    [s |-> <<"2","0","2","4","-","0","2","-","2","8">>, day |-> Day(2024, 2, 28)],
    [s |-> <<"2","0","2","4","-","0","3","-","0","1">>, day |-> Day(2024, 3, 1)],
    [s |-> <<"2","0","2","6","-","0","2","-","2","8">>, day |-> Day(2026, 2, 28)],
    [s |-> <<"2","0","2","6","-","0","3","-","0","1">>, day |-> Day(2026, 3, 1)] }

\* date cells of a sheet, with the day each is a representation of
DateCells ==
  { [cell |-> Str(D22dmy), day |-> Day(2026, 1, 22)],
    [cell |-> Str(<<"2","2","-","0","1","-","2","0","2","6">>), day |-> Day(2026, 1, 22)],
    [cell |-> Str(D22iso), day |-> Day(2026, 1, 22)],
    [cell |-> Num(46044), day |-> Day(2026, 1, 22)],
    [cell |-> Str(<<"4","6","0","4","4">>), day |-> Day(2026, 1, 22)],
    [cell |-> Str(<<" ","2","2","/","1","/","2","0","2","6"," ">>), day |-> Day(2026, 1, 22)],
    [cell |-> Str(<<"1","/","2","/","2","0","2","6">>), day |-> Day(2026, 2, 1)],
    [cell |-> Str(<<"0","1","-","0","2","/","2","0","2","6">>), day |-> Day(2026, 2, 1)],
    [cell |-> Str(<<"2","0","2","6","-","0","2","-","0","1">>), day |-> Day(2026, 2, 1)],
    [cell |-> Num(46054), day |-> Day(2026, 2, 1)],
    [cell |-> Num(45351), day |-> Day(2024, 2, 29)],
    [cell |-> Str(<<"2","9","/","0","2","/","2","0","2","4">>), day |-> Day(2024, 2, 29)],
    [cell |-> Num(46022), day |-> Day(2025, 12, 31)],
    [cell |-> Str(<<"3","1","/","1","2","/","2","0","2","5">>), day |-> Day(2025, 12, 31)] }

PureInputs ==
  {[fn |-> "dates", start |-> a, end |-> b] : a, b \in DurationDates}
    \cup {[fn |-> "cell", value |-> c] : c \in DateCells}

InitPure ==
  /\ db = EmptyDb
  /\ year = DefaultYear
  /\ week = DefaultWeek
  /\ isAdmin \in BOOLEAN
  /\ busy = FALSE
  /\ ui = refreshAll(EmptyDb, DefaultYear, DefaultWeek)
  /\ alert = NoAlert
  /\ imp = IdleImp
  /\ imp2 = IdleImp
  /\ Untouched
  /\ issued = <<>>
  /\ ops = 0
  /\ mode = "free"
  /\ file = <<>>
  /\ saved = EmptyDb
  /\ editMode = FALSE
  /\ out \in PureInputs

ApplyDuration ==
  /\ out.fn = "dates"
  /\ out' = [fn |-> "calculateDuration", start |-> out.start, end |-> out.end,
             days |-> calculateDuration(out.start.s, out.end.s),
             back |-> calculateDuration(out.end.s, out.start.s)]
  /\ UNCHANGED <<db, year, week, isAdmin, fileInput, pending, showDeleteModal, selectedVars, authVars, libraryVars, imp2, busy, ui, alert, imp, issued, ops, mode,
                 file, saved, editMode>>

ApplyDateToISO ==
  /\ out.fn = "cell"
  /\ out' = [fn |-> "excelDateToISO", value |-> out.value,
             iso |-> excelDateToISO(out.value.cell)]
  /\ UNCHANGED <<db, year, week, isAdmin, fileInput, pending, showDeleteModal, selectedVars, authVars, libraryVars, imp2, busy, ui, alert, imp, issued, ops, mode,
                 file, saved, editMode>>

NextPure ==
  \/ ApplyDuration
  \/ ApplyDateToISO

SpecPure == InitPure /\ [][NextPure]_vars

\* ------------------------------------------------------------------ properties

IsPrefix(s, u) == Len(s) <= Len(u) /\ SubSeq(u, 1, Len(s)) = s

\* an importExcel row iteration is the step taken
RowStepTaken == imp.pc = "rows" /\ imp' # imp /\ ops' = ops + 1

\* the row iteration taken ends in the catch block
AbortTaken == RowStepTaken /\ imp'.pc = "idle" /\ alert'.kind = "import error"

InsertsOf(table) ==
  {k \in DOMAIN issued : issued[k].table = table /\ issued[k].op = "insert"}

\* C1: importing the same rows a second time, after a first import of them
\* that completed without a persistence failure, creates no group, service,
\* port or sailing and leaves the store, every date value included, exactly
\* as the first import left it.
C1_ImportIdempotent ==
  mode = "done" =>
    /\ db = saved
    /\ alert.kind = "import done"
    /\ alert.groups = 0 /\ alert.services = 0
    /\ alert.ports = 0 /\ alert.vessels = 0

\* a two-row file was imported twice; its first import created two groups
\* and two dates
C1_Witness ==
  /\ mode = "done"
  /\ Len(file) = 2
  /\ Len(saved.dates) >= 2
  /\ Len(saved.groups) >= 2

StepOfOp(e) ==
  CASE e.table = "service_groups" -> "create group"
    [] e.table = "services" -> "create service"
    [] e.table = "service_ports" -> "create port"
    [] e.table = "sailings" -> "create vessel"
    [] e.table = "sailing_dates" /\ e.op = "insert" -> "insert date"
    [] e.table = "sailing_dates" /\ e.op = "update" -> "update date"

\* C2: when a persistence step fails in row N, the batch stops there: the
\* error names row N (1-based) and the step that failed, the failed
\* operation is the last one issued and no operation of a later row exists,
\* nothing that was in the store is removed or rewritten, and while no batch
\* is running no further batch operation is issued.
C2_PartialBatchDurable ==
  [][ /\ AbortTaken =>
          /\ alert'.row = imp.i + 1
          /\ issued' # <<>>
          /\ ~issued'[Len(issued')].ok
          /\ issued'[Len(issued')].row = imp.i + 1
          /\ alert'.step = StepOfOp(issued'[Len(issued')])
          /\ \A k \in DOMAIN issued' : issued'[k].row <= imp.i + 1
          /\ \A k \in 1..(Len(issued') - 1) : issued'[k].ok
          /\ IsPrefix(db.groups, db'.groups)
          /\ IsPrefix(db.services, db'.services)
          /\ IsPrefix(db.ports, db'.ports)
          /\ IsPrefix(db.sailings, db'.sailings)
          /\ db.dates = db'.dates
      /\ (imp.pc = "idle" /\ imp'.pc = "idle") => issued' = issued
    ]_vars

\* row 2 failed after row 1 had committed its date
C2_Witness ==
  /\ imp.pc = "idle"
  /\ alert.kind = "import error" /\ alert.row = 2
  /\ \E k \in DOMAIN issued :
       issued[k].row = 1 /\ issued[k].table = "sailing_dates" /\ issued[k].ok
  /\ db.dates # <<>>

SummaryFields == {"groups", "services", "ports", "vessels", "dates", "skipped"}

\* C3: the alert shown when a persistence failure aborts the batch carries
\* the counters accumulated so far together with the failing row and step.
C3_SummaryOnAbort ==
  (alert.kind = "import error" /\ alert.row >= 1) =>
    SummaryFields \subseteq DOMAIN alert

\* C4: within one batch at most one insert into service_ports is issued for
\* a (service, port name, event type), and while the batch runs the port it
\* inserted is the one the index holds for that key.
C4_OnePortPerKeyPerBatch ==
  /\ \A j, k \in InsertsOf("service_ports") :
       issued[j].key = issued[k].key => j = k
  /\ imp.pc = "rows" =>
       \A k \in InsertsOf("service_ports") :
         /\ issued[k].key \in DOMAIN imp.portByKey
         /\ PortKey(imp.portByKey[issued[k].key]) = issued[k].key
         /\ \E j \in DOMAIN db.ports : db.ports[j] = imp.portByKey[issued[k].key]

DateOpsOfPort(pid) ==
  {k \in DOMAIN issued : issued[k].table = "sailing_dates" /\ issued[k].key.ids[2] = pid}

\* two rows of one batch named the same port, which the first of them created
C4_Witness ==
  /\ imp.pc = "rows"
  /\ \E k \in InsertsOf("service_ports") :
       \E a, b \in DateOpsOfPort(imp.portByKey[issued[k].key].id) :
         issued[a].row # issued[b].row

\* C5: within one batch at most one insert is issued per group code, per
\* service code and per sailing key, and while the batch runs the index
\* holds every entity the batch created under its key.
C5_OneCreatePerKeyPerBatch ==
  /\ \A table \in {"service_groups", "services", "sailings"} :
       \A j, k \in InsertsOf(table) : issued[j].key = issued[k].key => j = k
  /\ imp.pc = "rows" =>
       /\ \A k \in InsertsOf("service_groups") :
            /\ issued[k].key \in DOMAIN imp.groupByCode
            /\ GroupKey(imp.groupByCode[issued[k].key]) = issued[k].key
       /\ \A k \in InsertsOf("services") :
            /\ issued[k].key \in DOMAIN imp.serviceByCode
            /\ ServiceKey(imp.serviceByCode[issued[k].key]) = issued[k].key
       /\ \A k \in InsertsOf("sailings") :
            /\ issued[k].key \in DOMAIN imp.sailingByKey
            /\ SailingKey(imp.sailingByKey[issued[k].key]) = issued[k].key

\* a later row of the batch reused the group, service and sailing that row 1
\* created: it issued a date operation and no insert of those kinds
C5_Witness ==
  /\ imp.pc = "rows" /\ imp.i >= 2
  /\ \A table \in {"service_groups", "services", "sailings"} :
       \E k \in InsertsOf(table) : issued[k].row = 1
  /\ \E k \in DOMAIN issued : issued[k].row = 2 /\ issued[k].table = "sailing_dates"
  /\ \A k \in DOMAIN issued :
       issued[k].row = 2 => issued[k].table \in {"sailing_dates", "service_ports"}

\* C6: no two ports of a service share (port name, event type) and no two
\* sailings of a service share (year, week, vessel, voyage), compared
\* case-insensitively, in every reachable state.
C6_NaturalKeysUnique ==
  /\ \A j, k \in DOMAIN db.ports :
       PortKey(db.ports[j]) = PortKey(db.ports[k]) => j = k
  /\ \A j, k \in DOMAIN db.sailings :
       SailingKey(db.sailings[j]) = SailingKey(db.sailings[k]) => j = k

\* the key under which row x finds its sailing in the index
RowSailingKey(x) ==
  MapKey(<<MapGet(imp.serviceByCode, MapKey(<<>>, <<x.service_code>>)).id,
           x.yearValue, x.weekValue>>,
         <<toUpperCase(x.vessel), toUpperCase(x.voyage)>>)

SailingsWithKey(d, key) ==
  {k \in DOMAIN d.sailings : SailingKey(d.sailings[k]) = key}

\* C7: a row whose sailing key already exists leaves exactly one sailing of
\* that key, and that sailing carries the row's connecting vessel and voyage.
C7_ReimportUpdatesFields ==
  [][ \A r \in RowSet :
        LET x == NormRow(r, year, week) IN
        ( /\ ImportRowStep(r, "none")
          /\ ~RowInvalid(x)
          /\ RowSailingKey(x) \in DOMAIN imp.sailingByKey )
        => /\ Cardinality(SailingsWithKey(db', RowSailingKey(x))) = 1
           /\ \A k \in SailingsWithKey(db', RowSailingKey(x)) :
                /\ db'.sailings[k].connecting_vessel = OrNull(x.connecting_vessel)
                /\ db'.sailings[k].connecting_voyage = OrNull(x.connecting_voyage)
    ]_vars

\* C8: no step changes the sequence of a port that exists: a port has the
\* sequence it was created with after every later batch.
C8_SequenceStable ==
  [][ \A j \in DOMAIN db.ports : \A k \in DOMAIN db'.ports :
        db'.ports[k].id = db.ports[j].id =>
          db'.ports[k].sequence = db.ports[j].sequence
    ]_vars

\* a batch that began with ports in the store has found one of them again
\* for a row and has created a port of its own
C8_Witness ==
  /\ imp.pc = "rows"
  /\ imp.ports # <<>>
  /\ imp.createdPorts >= 1
  /\ \E k \in DOMAIN issued :
       /\ issued[k].table = "sailing_dates"
       /\ \E j \in DOMAIN imp.ports : imp.ports[j].id = issued[k].key.ids[2]

\* C9: a port created by an import row has a sequence strictly greater than
\* that of every port its service already had.
C9_MonotonicSequence ==
  [][ RowStepTaken =>
        \A k \in DOMAIN db'.ports :
          (\A j \in DOMAIN db.ports : db.ports[j].id # db'.ports[k].id) =>
            \A j \in DOMAIN db.ports :
              db.ports[j].service_id = db'.ports[k].service_id =>
                db.ports[j].sequence < db'.ports[k].sequence
    ]_vars

\* C10: a row that fails validation issues no persistence operation, adds
\* exactly one to the skipped counter and leaves the batch running with its
\* index and other counters as they were.
C10_SkipIsWriteFree ==
  [][ \A r \in RowSet : \A failAt \in FailPoints :
        (RowInvalid(NormRow(r, year, week)) /\ ImportRowStep(r, failAt)) =>
          /\ db' = db
          /\ issued' = issued
          /\ imp' = [imp EXCEPT !.skipped = @ + 1, !.i = @ + 1]
          /\ alert' = alert
    ]_vars

\* row 1 was skipped and row 2 of the same batch was imported
C10_Witness ==
  /\ imp.pc = "rows" /\ imp.i = 2
  /\ imp.skipped = 1 /\ imp.upsertDates = 1
  /\ issued # <<>>
  /\ \A k \in DOMAIN issued : issued[k].row = 2

\* sailing_dates rows of store d for the cell (sailing, port)
DatesOfCell(d, ids) ==
  {k \in DOMAIN d.dates :
     <<d.dates[k].sailing_id, d.dates[k].service_port_id>> = ids}

OneDatePerCell(d) ==
  \A k \in DOMAIN d.dates :
    Cardinality(DatesOfCell(d, <<d.dates[k].sailing_id, d.dates[k].service_port_id>>)) = 1

\* C11: after every row of an import the store holds at most one SailingDate
\* per (sailing, port); a row whose cell already has a SailingDate, loaded
\* before the batch or created earlier in it, inserts nothing and overwrites
\* that record with the row's normalized date, and a row whose cell has none
\* inserts exactly one.
C11_OneDatePerCell ==
  [][ \A r \in RowSet :
        (~RowInvalid(NormRow(r, year, week)) /\ ImportRowStep(r, "none")) =>
          LET x == NormRow(r, year, week)
              e == issued'[Len(issued')]
              had == DatesOfCell(db, e.key.ids)
          IN  /\ e.table = "sailing_dates" /\ e.row = imp.i + 1
              /\ OneDatePerCell(db')
              /\ \A k \in DatesOfCell(db', e.key.ids) :
                    db'.dates[k].date_value = OrNull(x.date_value)
              /\ IF had # {}
                 THEN e.op = "update" /\ Len(db'.dates) = Len(db.dates)
                 ELSE e.op = "insert" /\ Len(db'.dates) = Len(db.dates) + 1
    ]_vars

\* row 1 created the date of a cell and row 2 of the same batch, naming the
\* cell in another spelling and with another date, overwrote it
C11_Witness ==
  /\ Len(issued) >= 2
  /\ \E a, b \in DOMAIN issued :
       /\ issued[a].table = "sailing_dates" /\ issued[a].op = "insert"
       /\ issued[a].row = 1 /\ issued[a].ok
       /\ issued[b].table = "sailing_dates" /\ issued[b].op = "update"
       /\ issued[b].row = 2 /\ issued[b].ok
       /\ issued[a].key = issued[b].key
  /\ Len(db.dates) = 1 /\ db.dates[1].date_value = D22iso

\* C12: after handleDeleteItem has deleted a group, a service or a sailing, no
\* service, port, sailing or date that descended from it remains in the store.
C12_CascadeDelete ==
  [][ \A item \in UiItems : \A backend \in Backends :
        (item[1] # "port" /\ handleDeleteItem(item[1], item[2], backend)) =>
          NoDependants(db', item[1], item[2])
    ]_vars

\* C13: calculateVoyageDuration gives the duration between the Departure port
\* matching the origin and the Arrival port matching the destination of the
\* sailing's own service whenever both carry a date for the sailing, and is
\* unavailable only when one of the two ports is missing from that service or
\* one of the two dates is absent, whatever ports other services have.
C13_DurationScopedToService ==
  out.fn = "calculateVoyageDuration" =>
    out.result =
      calculateVoyageDurationOwnService(ui, out.sailingId, originPort, out.destination)

\* days from 2024-01-01 to a day of 2024..2026, counted month by month
RECURSIVE DaysBeforeMonth(_, _)
DaysBeforeMonth(y, m) ==
  IF m = 1 THEN 0 ELSE DaysBeforeMonth(y, m - 1) + DaysInMonth(y, m - 1)

DayNumber(day) ==
  (IF day.y > 2024 THEN 366 ELSE 0) + (IF day.y > 2025 THEN 365 ELSE 0)
    + DaysBeforeMonth(day.y, day.m) + day.d

\* C14: for two valid dates calculateDuration is the absolute difference in
\* whole days, the same in both argument orders, and 4 for 2026-01-18 and
\* 2026-01-22.
C14_DurationArithmetic ==
  out.fn = "calculateDuration" =>
    /\ out.days = Abs(DayNumber(out.end.day) - DayNumber(out.start.day))
    /\ out.days = out.back
    /\ (out.start.s = D18iso /\ out.end.s = D22iso) => out.days = 4

\* the duration from 2026-01-22 back to 2026-01-18 was computed, and one
\* across the leap day of 2024
C14_Witness ==
  /\ out.fn = "calculateDuration"
  /\ \/ out.start.s = D22iso /\ out.end.s = D18iso /\ out.days = 4
     \/ out.start.day = Day(2024, 2, 28) /\ out.end.day = Day(2024, 3, 1) /\ out.days = 2

\* YYYY-MM-DD of a day
Canonical(day) ==
  padStart(NatToStr(day.y), 4) \o <<"-">> \o padStart(NatToStr(day.m), 2)
    \o <<"-">> \o padStart(NatToStr(day.d), 2)

\* C18: 22/01/2026, 22-01-2026, 2026-01-22 and the serial number of that day
\* all normalize to 2026-01-22, and every accepted representation of a day
\* normalizes to the one canonical string of that day.
C18_DateRoundTrip ==
  out.fn = "excelDateToISO" =>
    /\ out.iso = Canonical(out.value.day)
    /\ out.value.day = Day(2026, 1, 22) => out.iso = D22iso

\* the serial number of 2026-01-22 was normalized
C18_Witness ==
  /\ out.fn = "excelDateToISO"
  /\ out.value.cell = Num(46044)
  /\ out.iso = D22iso

\* C15: the list findVesselSuggestions returns is in ascending order of
\* duration, so its first element has the least duration.
C15_SuggestionsSorted ==
  out.fn = "findVesselSuggestions" =>
    \A i, j \in DOMAIN out.list :
      i < j => out.list[i].duration <= out.list[j].duration

\* four sailings were found and the fastest is not the first of the snapshot
C15_Witness ==
  /\ out.fn = "findVesselSuggestions"
  /\ Len(out.list) = 4
  /\ out.list[1].duration < out.list[4].duration
  /\ out.list[1].sailing.id # ui.sailings[1].id

\* C16: in the derived port list of a service the Departure ports whose name
\* contains the anchor name precede every other port whatever their stored
\* sequence, the other ports are in ascending order of stored sequence, and
\* the list holds the ports of the service, each once.
C16_AnchorFirst ==
  out.fn = "portsByService" =>
    /\ \A i, j \in DOMAIN out.list :
         i < j =>
           /\ ~(isBatam(out.list[j]) /\ ~isBatam(out.list[i]))
           /\ (~isBatam(out.list[i]) /\ ~isBatam(out.list[j])) =>
                 out.list[i].sequence <= out.list[j].sequence
    /\ Len(out.list) = Len(OfService(ui.ports, out.sid))
    /\ \A k \in DOMAIN ui.ports :
         ui.ports[k].service_id = out.sid =>
           \E i \in DOMAIN out.list : out.list[i] = ui.ports[k]

\* the anchor port has the highest stored sequence of three and is listed first
C16_Witness ==
  /\ out.fn = "portsByService"
  /\ Len(out.list) = 3
  /\ isBatam(out.list[1]) /\ out.list[1].sequence = 3
  /\ out.list[2].sequence = 1 /\ out.list[3].sequence = 2

\* the anchor port of service sid in snapshot u, NoRow when it has none
AnchorPortOf(u, sid) ==
  LET own == OfService(u.ports, sid)
  IN  IF \E k \in DOMAIN own : isBatam(own[k])
      THEN own[CHOOSE k \in DOMAIN own : isBatam(own[k])]
      ELSE NoRow

\* the date recorded at the anchor cell of a sailing
AnchorDate(u, s) ==
  DateValueOf(sailingDateMap(u.sailingDates), s.id, AnchorPortOf(u, s.service_id).id)

\* position of sailing s in the loaded snapshot
InputIndex(u, s) == CHOOSE k \in DOMAIN u.sailings : u.sailings[k] = s

\* C17: within a service that has an anchor port the sailings are in ascending
\* order of the date recorded at the anchor cell, a sailing without such a
\* date comes after every sailing with one, and sailings with equal dates or
\* both without one keep their input order.
C17_SailingsByAnchorDate ==
  (out.fn = "sailingsByService" /\ AnchorPortOf(ui, out.sid) # NoRow) =>
    \A i, j \in DOMAIN out.list :
      i < j =>
        LET a == AnchorDate(ui, out.list[i])
            b == AnchorDate(ui, out.list[j])
        IN  /\ a = <<>> => b = <<>>
            /\ (IsCalendarDate(a) /\ IsCalendarDate(b)) => getTime(a) <= getTime(b)
            /\ a = b => InputIndex(ui, out.list[i]) < InputIndex(ui, out.list[j])

\* C19: every date_value in the store that is not null is a valid calendar
\* date in the form YYYY-MM-DD; an input that is no valid date is stored as
\* absent.
C19_CanonicalDates ==
  \A k \in DOMAIN db.dates :
    db.dates[k].date_value # Null => IsCalendarDate(db.dates[k].date_value)

\* ports of service sid inserted so far by the batch in flight
PortsCreatedFor(sid) ==
  {k \in InsertsOf("service_ports") : issued[k].ok /\ issued[k].key.ids = <<sid>>}

\* C20: a port that an import row creates for service S gets the sequence
\* (ports of S in the snapshot loaded before the batch) + (ports created so
\* far for S in this batch) + 1.
C20_SequencePerService ==
  [][ (RowStepTaken /\ Len(db'.ports) = Len(db.ports) + 1) =>
        LET p == db'.ports[Len(db'.ports)]
        IN  p.sequence =
              Len(OfService(imp.ports, p.service_id))
                + Cardinality(PortsCreatedFor(p.service_id)) + 1
    ]_vars

\* a cell of the sheet that holds nothing
CellEmpty(c) == ~IsNum(c) /\ c.str = <<>>

\* a required cell of row r is empty, or its event type is neither ETD nor ETA
LacksRequired(r) ==
  \/ \E f \in {"group_code", "service_code", "year", "week", "vessel", "voyage",
               "port_name"} : CellEmpty(r[f])
  \/ toUpperCase(trim(excelValueToString(r.event_type))) \notin {ETD, ETA}

\* C21: a row with an empty group code, service code, year, week, vessel,
\* voyage or port name, or with an event type that is not ETD or ETA after
\* trimming and upper-casing, is skipped: it adds one to the skipped counter
\* and writes nothing, whatever year and week the page has selected.
C21_RequiredFields ==
  [][ \A r \in RowSet : \A failAt \in FailPoints :
        (LacksRequired(r) /\ ImportRowStep(r, failAt)) =>
          /\ imp'.pc = "rows" /\ imp'.skipped = imp.skipped + 1
          /\ db' = db
    ]_vars

\* the place of a table in the steps A) to E) of a row
TableRank(table) ==
  CASE table = "service_groups" -> 1
    [] table = "services"       -> 2
    [] table = "service_ports"  -> 3
    [] table = "sailings"       -> 4
    [] table = "sailing_dates"  -> 5

\* the lookup map of the batch in flight for a table
IndexOf(table) ==
  CASE table = "service_groups" -> imp.groupByCode
    [] table = "services"       -> imp.serviceByCode
    [] table = "service_ports"  -> imp.portByKey
    [] table = "sailings"       -> imp.sailingByKey
    [] table = "sailing_dates"  -> imp.dateByKey

\* C22: the persistence operations of a batch are issued in the order of the
\* rows and, within a row, in the order group, service, port, sailing, date,
\* at most one per table; while the batch runs, every record a row has
\* created is in the lookup map the next row reads.
C22_SequentialIssueOrder ==
  /\ \A a, b \in DOMAIN issued :
       a < b =>
         \/ issued[a].row < issued[b].row
         \/ /\ issued[a].row = issued[b].row
            /\ TableRank(issued[a].table) < TableRank(issued[b].table)
  /\ imp.pc = "rows" =>
       /\ \A k \in DOMAIN issued : issued[k].row <= imp.i
       /\ \A k \in DOMAIN issued :
            (issued[k].op = "insert" /\ issued[k].ok) =>
              issued[k].key \in DOMAIN IndexOf(issued[k].table)

\* on an empty store row 1 created its group, service, port, sailing and date
\* in that order, and row 2 found all of them but the date's cell
C22_Witness ==
  /\ imp.pc = "rows" /\ imp.i = 2 /\ Len(issued) = 7
  /\ \A k \in 1..5 :
       /\ issued[k].row = 1 /\ issued[k].op = "insert" /\ issued[k].ok
       /\ TableRank(issued[k].table) = k
  /\ issued[6].row = 2 /\ issued[6].table = "service_ports"
  /\ issued[7].row = 2 /\ issued[7].table = "sailing_dates"
  /\ issued[7].op = "insert"

\* C23: while one importExcel batch is in flight, no second batch processes
\* a row.
C23_NoOverlappingBatches ==
  [][ imp.pc = "rows" =>
        ~ \E r \in OverlapRowSet, failAt \in FailPoints : OverlapRowStep(r, failAt)
    ]_vars

\* C24: with cell edits and import batches interleaving, the store holds at
\* most one SailingDate per (sailing, port) in every reachable state.
C24_OneDatePerCellInterleaved ==
  OneDatePerCell(db)

IdsOf(seq) == {seq[k].id : k \in DOMAIN seq}

\* C25: when a row of a batch inserts a port or a sailing, or issues such an
\* insert, the service it names is in the store, and when it inserts a service
\* the group it names is in the store, also after a delete between two rows of
\* the batch.
C25_ContainmentAtReference ==
  [][ RowStepTaken =>
        /\ \A k \in DOMAIN db'.services :
             db'.services[k].id \notin IdsOf(db.services) =>
               db'.services[k].group_id \in IdsOf(db'.groups)
        /\ \A k \in DOMAIN db'.ports :
             db'.ports[k].id \notin IdsOf(db.ports) =>
               db'.ports[k].service_id \in IdsOf(db'.services)
        /\ \A k \in DOMAIN db'.sailings :
             db'.sailings[k].id \notin IdsOf(db.sailings) =>
               db'.sailings[k].service_id \in IdsOf(db'.services)
        /\ \A k \in DOMAIN issued' :
             (k > Len(issued) /\ issued'[k].op = "insert"
                /\ issued'[k].table \in {"service_ports", "sailings"}) =>
               issued'[k].key.ids[1] \in IdsOf(db'.services)
    ]_vars

\* the date the snapshot holds for a cell: "" when it holds none
CellDate(u, sailingId, portId) ==
  IF \E k \in DOMAIN u.sailingDates :
       /\ u.sailingDates[k].sailing_id = sailingId
       /\ u.sailingDates[k].service_port_id = portId
       /\ u.sailingDates[k].date_value # Null
  THEN u.sailingDates[CHOOSE k \in DOMAIN u.sailingDates :
         /\ u.sailingDates[k].sailing_id = sailingId
         /\ u.sailingDates[k].service_port_id = portId
         /\ u.sailingDates[k].date_value # Null].date_value
  ELSE <<>>

\* pairs (departure port, arrival port) of the sailing's own service that match
\* the route
RoutePorts(u, s, origin, destination) ==
  {pq \in (DOMAIN u.ports) \X (DOMAIN u.ports) :
     /\ u.ports[pq[1]].service_id = s.service_id
     /\ u.ports[pq[2]].service_id = s.service_id
     /\ PortMatches(u.ports[pq[1]], origin, ETD)
     /\ PortMatches(u.ports[pq[2]], destination, ETA)}

\* C26: findVesselSuggestions returns one result for every sailing
\* whose own service has some Departure port matching origin and some Arrival
\* port matching destination with both dates present for the sailing, none for
\* any other sailing, and each result names two matching ports of the
\* sailing's service, their dates and calculateDuration of the dates.
C26_RouteSearchSoundComplete ==
  out.fn = "findVesselSuggestions" =>
    /\ \A k \in DOMAIN ui.sailings :
         LET s == ui.sailings[k]
             qualifies ==
               \E pq \in RoutePorts(ui, s, originPort, out.destination) :
                 /\ CellDate(ui, s.id, ui.ports[pq[1]].id) # <<>>
                 /\ CellDate(ui, s.id, ui.ports[pq[2]].id) # <<>>
         IN  Cardinality({i \in DOMAIN out.list : out.list[i].sailing = s})
               = IF qualifies THEN 1 ELSE 0
    /\ \A i \in DOMAIN out.list :
         /\ \E k \in DOMAIN ui.sailings : ui.sailings[k] = out.list[i].sailing
         /\ \E pq \in RoutePorts(ui, out.list[i].sailing, originPort, out.destination) :
              LET p == ui.ports[pq[1]]
                  q == ui.ports[pq[2]]
                  e == out.list[i]
              IN  /\ e.originPort = p.port_name
                  /\ e.destinationPort = q.port_name
                  /\ e.originDate = CellDate(ui, e.sailing.id, p.id)
                  /\ e.destinationDate = CellDate(ui, e.sailing.id, q.id)
                  /\ e.originDate # <<>> /\ e.destinationDate # <<>>
                  /\ e.duration = calculateDuration(e.originDate, e.destinationDate)

Norm(s) == toUpperCase(trim(s))

\* rows of a table of store d that row r of the sheet names, keys compared
\* trimmed and upper-cased
GroupsNamed(d, r) ==
  {k \in DOMAIN d.groups : Norm(d.groups[k].code) = Norm(r.group_code.str)}
ServicesNamed(d, r) ==
  {k \in DOMAIN d.services : Norm(d.services[k].code) = Norm(r.service_code.str)}
PortsNamed(d, r) ==
  {k \in DOMAIN d.ports :
     /\ \E j \in ServicesNamed(d, r) : d.services[j].id = d.ports[k].service_id
     /\ Norm(d.ports[k].port_name) = Norm(r.port_name.str)
     /\ Norm(d.ports[k].event_type) = Norm(r.event_type.str)}
SailingsNamed(d, r, y, w) ==
  {k \in DOMAIN d.sailings :
     /\ \E j \in ServicesNamed(d, r) : d.services[j].id = d.sailings[k].service_id
     /\ d.sailings[k].year = y /\ d.sailings[k].week = w
     /\ Norm(d.sailings[k].vessel) = Norm(r.vessel.str)
     /\ Norm(d.sailings[k].voyage) = Norm(r.voyage.str)}

\* row r has a year, a week, an event type ETD or ETA and every key text
RowComplete(r) ==
  /\ IsNum(r.year) /\ IsNum(r.week)
  /\ \A f \in {"group_code", "service_code", "vessel", "voyage", "port_name"} :
       Norm(r[f].str) # <<>>
  /\ Norm(r.event_type.str) \in {ETD, ETA}

\* C28: in a batch that runs alone, a row whose group code, service code,
\* port name and event type, or vessel and voyage equal those of a stored
\* group, service, port or sailing up to letter case and surrounding white
\* space creates no group, service, port or sailing of that key, and its date
\* is written to the cell of the stored sailing and port.
C28_KeysNormalized ==
  [][ \A r \in RowSet :
        (mode \in {"first", "second"} /\ RowComplete(r)
           /\ ImportRowStep(r, "none")) =>
          LET x == NormRow(r, year, week)
              e == issued'[Len(issued')]
              ports == PortsNamed(db, r)
              sailings == SailingsNamed(db, r, x.yearValue, x.weekValue)
          IN  /\ GroupsNamed(db, r) # {} => db'.groups = db.groups
              /\ ServicesNamed(db, r) # {} => db'.services = db.services
              /\ ports # {} => db'.ports = db.ports
              /\ sailings # {} => db'.sailings = db.sailings
              /\ Len(issued') > Len(issued)
              /\ e.table = "sailing_dates" /\ e.row = imp.i + 1
              /\ sailings # {} => \E k \in sailings : db.sailings[k].id = e.key.ids[1]
              /\ ports # {} => \E k \in ports : db.ports[k].id = e.key.ids[2]
    ]_vars

\* row 1 created group CN, service S1, port BATAM / ETD and sailing VA / 1W,
\* and row 2, naming them as " cn", "s1", "batam" / "etd ", "va" / "1w ",
\* created nothing and overwrote the date of their cell
C28_Witness ==
  /\ mode = "first" /\ imp.i = 2
  /\ file[1] = TemplateRow
  /\ file[2].group_code = Str(cnPad) /\ file[2].voyage = Str(w1Pad)
  /\ Len(issued) = 6
  /\ issued[6].row = 2 /\ issued[6].op = "update" /\ issued[6].ok
  /\ Len(db.groups) = 1 /\ Len(db.services) = 1
  /\ Len(db.ports) = 1 /\ Len(db.sailings) = 1 /\ Len(db.dates) = 1
  /\ db.sailings[1].voyage = W1

\* C29: a service that an import row creates gets the display order (number
\* of services its group holds before the insert) + 1.
C29_ServiceOrderPerGroup ==
  [][ (RowStepTaken /\ Len(db'.services) = Len(db.services) + 1) =>
        LET s == db'.services[Len(db'.services)]
        IN  s.sort_order =
              Cardinality({k \in DOMAIN db.services :
                             db.services[k].group_id = s.group_id}) + 1
    ]_vars

\* successful inserts into a table in log
OkInserts(log, table) ==
  Cardinality({k \in DOMAIN log :
                 log[k].table = table /\ log[k].op = "insert" /\ log[k].ok})

\* C30: when a batch completes, its summary satisfies skipped + dates = rows,
\* rows being the number of rows of the sheet, and reports as created groups,
\* services, ports and sailings the numbers of successful inserts the batch
\* issued into each table.
C30_CounterAccounting ==
  [][ (imp.pc = "rows" /\ imp'.pc = "idle" /\ alert'.kind = "import done") =>
        /\ alert'.rows = imp.i
        /\ alert'.skipped + alert'.dates = alert'.rows
        /\ alert'.groups = OkInserts(issued, "service_groups")
        /\ alert'.services = OkInserts(issued, "services")
        /\ alert'.ports = OkInserts(issued, "service_ports")
        /\ alert'.vessels = OkInserts(issued, "sailings")
        /\ \A k \in DOMAIN issued : issued[k].ok
    ]_vars

\* a batch of three rows completed: one created everything, one overwrote the
\* date, one was skipped
C30_Witness ==
  /\ imp.pc = "idle" /\ alert.kind = "import done"
  /\ alert.rows = 3 /\ alert.skipped = 1 /\ alert.dates = 2
  /\ alert.groups = 1 /\ alert.services = 1 /\ alert.ports = 1 /\ alert.vessels = 1
  /\ Len(issued) = 6 /\ issued[6].op = "update"

\* successful inserts of one row of the sheet into a table in log
RowInserts(log, row, table) ==
  Cardinality({k \in DOMAIN log :
                 /\ log[k].row = row /\ log[k].table = table
                 /\ log[k].op = "insert" /\ log[k].ok})

\* C31: when a persistence failure aborts the batch at a step of row N, what
\* the earlier steps of row N created stays in the store: each table holds
\* what it held before the row followed by the records row N inserted, no
\* operation other than an insert or an update was issued, and no date of
\* row N exists.
C31_PartialRowKept ==
  [][ AbortTaken =>
        LET n == imp.i + 1 IN
        /\ Len(db'.groups) = Len(db.groups) + RowInserts(issued', n, "service_groups")
        /\ Len(db'.services) = Len(db.services) + RowInserts(issued', n, "services")
        /\ Len(db'.ports) = Len(db.ports) + RowInserts(issued', n, "service_ports")
        /\ Len(db'.sailings) = Len(db.sailings) + RowInserts(issued', n, "sailings")
        /\ RowInserts(issued', n, "sailing_dates") = 0
        /\ \A k \in DOMAIN issued' : issued'[k].op \in {"insert", "update"}
    ]_vars

\* the first row's date insert failed: its group, service, port and sailing
\* are in the store and its cell has no date
C31_Witness ==
  /\ imp.pc = "idle"
  /\ alert.kind = "import error" /\ alert.row = 1 /\ alert.step = "insert date"
  /\ Len(db.groups) = 1 /\ Len(db.services) = 1
  /\ Len(db.ports) = 1 /\ Len(db.sailings) = 1
  /\ db.dates = <<>>

\* C32: when importExcel ends, by completing its rows or in the catch block
\* after a persistence failure, the snapshot held in React state is the one
\* refreshAll loads from the store as the batch left it.
C32_SnapshotReloaded ==
  [][ (imp.pc = "rows" /\ imp'.pc = "idle") =>
        ui' = refreshAll(db', year, week)
    ]_vars

\* C33: confirming the delete modal calls handleDeleteItem for the item whose
\* delete button opened the modal: the alert names that item's kind and the
\* store is what the delete of that item's id leaves, whatever was selected
\* by earlier clicks.
C33_DeleteTargetsClicked ==
  [][ (showDeleteModal /\ ops' = ops + 1) =>
        /\ alert'.kind = "deleted" /\ alert'.type = clicked[1]
        /\ \E backend \in Backends :
             db' = StoreDelete(db, clicked[1], clicked[2], backend)
    ]_vars

\* the rows of the table an item of a type is kept in
TableOf(d, type) ==
  CASE type = "group" -> d.groups
    [] type = "service" -> d.services
    [] type = "port" -> d.ports
    [] type = "sailing" -> d.sailings

\* the store answers the delete of an item with an error: the row exists and
\* rows that depend on it keep it from being deleted
DeleteRefused(d, type, id, backend) ==
  /\ backend = "restrict"
  /\ id \in IdsOf(TableOf(d, type))
  /\ ~NoDependants(d, type, id)

\* C34: handleDeleteItem shows the alert '<Type> deleted!' only when the
\* delete succeeded: when the store answers the delete with an error, the
\* alert it leaves is no success alert.
C34_DeleteReportsFailure ==
  [][ \A item \in UiItems, backend \in Backends :
        (/\ handleDeleteItem(item[1], item[2], backend)
         /\ DeleteRefused(db, item[1], item[2], backend))
        => alert'.kind # "deleted"
    ]_vars

\* the codes of the groups that own the service a port or sailing row x of
\* store d belongs to
GroupCodesOf(d, x) ==
  {d.groups[g].code : g \in {j \in DOMAIN d.groups :
     \E k \in DOMAIN d.services :
       /\ d.services[k].id = x.service_id
       /\ d.services[k].group_id = d.groups[j].id}}

\* C35: after a valid row is processed, the port and the sailing its date is
\* written for belong to a service of the group the row names, also when a
\* service of the row's code existed before the row.
C35_ServiceOfRowGroup ==
  [][ \A r \in RowSet :
        (RowComplete(r) /\ ImportRowStep(r, "none")) =>
          LET e == issued'[Len(issued')]
              code == Norm(r.group_code.str)
          IN  /\ e.table = "sailing_dates" /\ e.row = imp.i + 1
              /\ \E k \in DOMAIN db'.sailings :
                   /\ db'.sailings[k].id = e.key.ids[1]
                   /\ GroupCodesOf(db', db'.sailings[k]) = {code}
              /\ \E k \in DOMAIN db'.ports :
                   /\ db'.ports[k].id = e.key.ids[2]
                   /\ GroupCodesOf(db', db'.ports[k]) = {code}
    ]_vars

\* C36: once every refreshAll call started by a change of year or week has
\* returned, the sailings held in React state are those the store holds for
\* the selected year and week.
C36_RefreshConverges ==
  pending = <<>> => ui.sailings = refreshAll(db, year, week).sailings

\* an importExcel call by an admin returns in the step taken: after its last
\* row, in its catch block, or on an empty sheet
ImportReturns ==
  /\ isAdmin
  /\ \/ imp.pc = "rows" /\ imp'.pc = "idle"
     \/ imp.pc = "idle" /\ imp'.pc = "idle" /\ ops' = ops + 1

\* C37: every importExcel call by an admin ends, and when it ends busy is
\* false and the file input is cleared, whether it completed, found the
\* sheet empty, failed to load the store or aborted in a row.
C37_ImportFinishesCleanly ==
  /\ [][ ImportReturns =>
           /\ ~busy' /\ fileInput' = NoFile
           /\ alert'.kind \in {"import done", "import error", "excel file is empty"}
       ]_vars
  /\ (imp.pc = "rows") ~> (imp.pc = "idle" /\ ~busy /\ fileInput = NoFile)

\* a batch aborted in its second row has returned
C37_Witness ==
  /\ isAdmin /\ imp.pc = "idle"
  /\ alert.kind = "import error" /\ alert.row = 2
  /\ ~busy /\ fileInput = NoFile
  /\ db.dates # <<>>

\* C38: in every reachable state, editMode is true only if isAdmin is true.
C38_EditModeImpliesAdmin ==
  editMode => isAdmin

\* the storage object uploadFile wrote for a record of port_files
ObjectOf(record) == ObjectPath("port-files", record.file_name)

\* C39: after any uploadFile and deleteFile calls, whichever of their steps
\* failed, each record of port_files has its storage object and each storage
\* object has its record.
C39_LibraryConsistent ==
  /\ \A k \in DOMAIN port_files : ObjectOf(port_files[k]) \in storage
  /\ \A o \in storage : \E k \in DOMAIN port_files : ObjectOf(port_files[k]) = o

=============================================================================
